---- MODULE Spec2Model ----
(***************************************************************************)
(* A model of the filter / dedupe decision engine of the CA filter bot:    *)
(*   - DedupeStore.seen          (src/src/storage.py)                      *)
(*   - check_range               (src/src/utils.py)                        *)
(*   - apply_filters and friends (src/src/filters.py)                      *)
(*   - process_ca                (src/src/main.py)                         *)
(* Optional values (Python None) are sequences of length at most one:      *)
(* <<>> is None and <<v>> is the value v.                                  *)
(***************************************************************************)
EXTENDS Integers, Sequences, FiniteSets, Bags, TLC

None == <<>>
Some(v) == <<v>>
IsNone(o) == o = <<>>
Val(o) == o[1]

(***************************************************************************)
(* Bounds of the model.                                                    *)
(***************************************************************************)
\* number of calls of DedupeStore.seen made by independent callers
NumCallers == 3
\* number of times the wall clock is observed to advance
MaxTicks == 2
\* the wall clock (time.time(), epoch seconds) when the program starts
StartTime == 1000

\* number of invocations of process_ca
NumInvocations == 2
\* how many ranges of a FilterConfig are set at most
MaxSetRanges == 2
\* how many fields of a TokenMetrics are None at most
MaxNull == 2
\* datetime.utcnow() at the evaluation, in minutes
EvalTime == 2
\* the largest value and the largest bound handed to check_range
MaxValue == 3
\* how many executions of _run_task are in flight at most
MaxRuns == 2
\* how many pause and resume commands the operator gives at most
MaxOps == 1
MaxSyncs == 1
MaxEntries == 2

(***************************************************************************)
(* Program constants.                                                      *)
(***************************************************************************)
\* DedupeStore._cleanup_interval
CleanupInterval == 300
\* the ttl process_ca passes to seen
PcaTTL == 86400

\* a day has 24 hours of 60 minutes of 60 seconds
HoursPerDay == 24
MinutesPerHour == 60
SecondsPerMinute == 60
\* TZ_SHANGHAI is UTC+8
TzOffsetHours == 8

Callers == 1..NumCallers
Keys == {"k1", "k2"}
\* a short ttl, one that outlives a cleanup interval, and a non-numeric ttl
\* (None), on which `now + ttl` raises TypeError
GoodTTLs == {Some(1), Some(CleanupInterval + 2)}
BadTTL == None
TTLs == GoodTTLs \cup {BadTTL}
\* the amounts by which the wall clock advances between two observations
Jumps == {1, CleanupInterval + 1}

VARIABLES
    clock,          \* time.time()
    ticks,          \* how often the clock advanced (bounded by MaxTicks)
    memory,         \* DedupeStore.memory: key -> expiry
    last_cleanup,   \* DedupeStore._last_cleanup
    cpc,            \* per call of seen: "idle", "wait" (invoked), "done"
    ckey,           \* per call: the key argument
    cttl,           \* per call: the ttl argument
    cnow,           \* per call: the local `now`
    cret,           \* per call: "none", "true", "false" or "raised"
    fmetrics,       \* the TokenMetrics handed to the filter evaluator
    fcfg,           \* the FilterConfig handed to the filter evaluator
    utcnow,         \* datetime.utcnow(), in minutes
    fres,           \* the evaluator called last and what it returned
    st_current,     \* StateStore._state["current_task"]
    st_tasks,       \* StateStore._state["tasks"]: id -> filters, push_chats
    ppc,            \* per invocation of process_ca: where it is suspended
    pin,            \* per invocation: the arguments
    pm,             \* per invocation: the local `metrics`
    pout,           \* per invocation: passed, reasons, calls made, result
    rc,             \* a call of check_range: value, range and result
    win,            \* a call of _is_in_time_window: window, time and result
    sch_tasks,      \* TaskScheduler.tasks: id -> enabled, next_run, window
    sch_saved,      \* the tasks as ClientPool._save wrote them last
    sch_runs,       \* the executions of _run_task in flight
    sch_sync,       \* the _sync_state_enabled coroutines not yet run
    st_enabled,     \* StateStore: the enabled flag of the tasks it holds
    sch_ops,        \* how many operator commands were given (bounded)
    sch_hold,       \* history: the last pause or resume that went against
                    \* the window of the task, and when it was given
    sch_loop,       \* the task of _run_loop: whether it is alive, and
                    \* whether an error of an execution was logged
    sch_ret,        \* the success the last command of the operator reported
    ld,             \* a call of load_tasks: the configuration and the result
    st_doc,         \* StateStore: the start_time and end_time keys of the
                    \* tasks it holds, each absent or present with a value
    st_file,        \* the tasks of the document StateStore._write wrote last
    st_ret          \* how the last call of a StateStore setter ended

dvars == <<memory, last_cleanup, cpc, ckey, cttl, cnow, cret>>
tvars == <<clock, ticks>>
fvars == <<fmetrics, fcfg, utcnow, fres>>
cvars == <<cpc, ckey, cttl, cnow, cret>>
svars == <<memory, last_cleanup>>
pvars == <<st_current, st_tasks, ppc, pin, pm, pout, st_file, st_ret>>
hvars == <<rc, win>>
kvars == <<sch_tasks, sch_saved, sch_runs, sch_sync, st_enabled, sch_ops, sch_hold>>
avars == <<sch_loop, sch_ret, ld, st_doc>>
vars == <<clock, ticks, memory, last_cleanup, cpc, ckey, cttl, cnow, cret,
          fmetrics, fcfg, utcnow, fres, st_current, st_tasks, ppc, pin, pm, pout,
          rc, win,
          sch_tasks, sch_saved, sch_runs, sch_sync, st_enabled, sch_ops, sch_hold,
          sch_loop, sch_ret, ld, st_doc, st_file, st_ret>>

(***************************************************************************)
(* DedupeStore.seen, src/src/storage.py                                    *)
(***************************************************************************)
\* line 26: the sweep runs when more than the interval passed since the last
NeedsCleanup(now, last) == now - last > CleanupInterval

\* a sweep with the comparison inverted: it pops the entries still valid
SweepInverted(mem, now) ==
    LET keep == {k \in DOMAIN mem : ~(mem[k] > now)}
    IN  [k \in keep |-> mem[k]]

\* lines 28-31: pop every entry whose expiry is below now
Sweep(mem, now) ==
    LET keep == {k \in DOMAIN mem : ~(mem[k] < now)}
    IN  [k \in keep |-> mem[k]]

\* lines 26-34: the store after the periodic sweep
AfterCleanup(mem, now, last) ==
    IF NeedsCleanup(now, last) THEN Sweep(mem, now) ELSE mem

LastCleanupAfter(now, last) ==
    IF NeedsCleanup(now, last) THEN now ELSE last

\* the expiry test with >= in place of >
IsSeenInclusive(mem, key, now) == key \in DOMAIN mem /\ mem[key] >= now

\* a store that forgets to write the key
RecordNothing(mem, key, now, ttl) == mem

\* an error handler that lets the exception out
OnErrorRaise == "raised"

\* line 37: the key is recorded and its expiry is still ahead
IsSeen(mem, key, now) == key \in DOMAIN mem /\ mem[key] > now

\* line 42: memory[key] = now + ttl
Record(mem, key, now, ttl) ==
    [k \in DOMAIN mem \cup {key} |-> IF k = key THEN now + Val(ttl) ELSE mem[k]]

\* lines 45-48: what seen returns when its body raised
OnError == "false"

\* a body that refreshes the expiry on every hit (sliding expiration)
SeenBodyRefresh(mem, key, ttl, now, last) ==
    LET swept == AfterCleanup(mem, now, last)
    IN  IF IsSeen(swept, key, now)
        THEN <<"true", IF IsNone(ttl) THEN swept ELSE Record(swept, key, now, ttl)>>
        ELSE IF IsNone(ttl) THEN <<OnError, swept>>
        ELSE <<"false", Record(swept, key, now, ttl)>>

\* lines 23-48: the body of seen under the lock, as the pair
\* <<returned value, memory afterwards>>
SeenBody(mem, key, ttl, now, last) ==
    LET swept == AfterCleanup(mem, now, last)
    IN  IF IsSeen(swept, key, now) THEN <<"true", swept>>
        ELSE IF IsNone(ttl) THEN <<OnError, swept>>
        ELSE <<"false", Record(swept, key, now, ttl)>>

\* a caller invokes seen(key, ttl); the calls are numbered in the order in
\* which they are made, and the keys in the order in which they are first used
Call(c, k, t) ==
    /\ cpc[c] = "idle"
    /\ c > 1 => cpc[c - 1] # "idle"
    /\ c = 1 => k = "k1"
    /\ cpc' = [cpc EXCEPT ![c] = "wait"]
    /\ ckey' = [ckey EXCEPT ![c] = k]
    /\ cttl' = [cttl EXCEPT ![c] = t]
    /\ UNCHANGED <<memory, last_cleanup, cnow, cret, clock, ticks>>
    /\ UNCHANGED <<fvars, pvars, hvars, kvars, avars>>

\* lines 22-48: the lock is taken, the clock read, the store swept, the key
\* checked and set, the lock released and the result returned. The body holds
\* no await, so the lock is free whenever a coroutine reaches line 22 and the
\* event loop runs the whole of it as one step.
Body(c) ==
    /\ cpc[c] = "wait"
    /\ LET r == SeenBody(memory, ckey[c], cttl[c], clock, last_cleanup)
       IN  /\ cret' = [cret EXCEPT ![c] = r[1]]
           /\ memory' = r[2]
    /\ last_cleanup' = LastCleanupAfter(clock, last_cleanup)
    /\ cnow' = [cnow EXCEPT ![c] = clock]
    /\ cpc' = [cpc EXCEPT ![c] = "done"]
    /\ UNCHANGED <<ckey, cttl, clock, ticks>>
    /\ UNCHANGED <<fvars, pvars, hvars, kvars, avars>>

\* the wall clock advances
Tick(d) ==
    /\ ticks < MaxTicks
    /\ clock' = clock + d
    /\ ticks' = ticks + 1
    /\ UNCHANGED dvars
    /\ UNCHANGED <<fvars, pvars, hvars, kvars, avars>>

(***************************************************************************)
(* FilterRange and check_range, src/src/models.py and src/src/utils.py     *)
(***************************************************************************)
\* a FilterRange: min and max are optional numbers
Range(lo, hi) == [min |-> lo, max |-> hi]
Unset == Range(None, None)

\* FilterRange.is_set
IsSet(r) == ~IsNone(r.min) \/ ~IsNone(r.max)

\* the second component of check_range's result: None, "missing",
\* f"< {r.min}" or f"> {r.max}", as the comparator and the bound printed
Msg(op, bound) == [op |-> op, bound |-> bound]
NoMsg == Msg("none", None)

\* a check that looks at the value before it looks at the range
CheckRangeNoneFirst(value, r) ==
    IF IsNone(value) THEN [ok |-> FALSE, msg |-> Msg("missing", None)]
    ELSE IF ~IsNone(r.min) /\ Val(value) < Val(r.min)
         THEN [ok |-> FALSE, msg |-> Msg("<", r.min)]
    ELSE IF ~IsNone(r.max) /\ Val(value) > Val(r.max)
         THEN [ok |-> FALSE, msg |-> Msg(">", r.max)]
    ELSE [ok |-> TRUE, msg |-> NoMsg]

\* a check without the test for None: comparing None with a bound raises
CheckRangeCompareNone(value, r) ==
    IF ~(~IsNone(r.min) \/ ~IsNone(r.max)) THEN [ok |-> TRUE, msg |-> NoMsg]
    ELSE IF IsNone(value) THEN [ok |-> FALSE, msg |-> Msg("raised", None)]
    ELSE IF ~IsNone(r.min) /\ Val(value) < Val(r.min)
         THEN [ok |-> FALSE, msg |-> Msg("<", r.min)]
    ELSE IF ~IsNone(r.max) /\ Val(value) > Val(r.max)
         THEN [ok |-> FALSE, msg |-> Msg(">", r.max)]
    ELSE [ok |-> TRUE, msg |-> NoMsg]

\* a check whose bounds are exclusive
CheckRangeExclusive(value, r) ==
    IF ~(~IsNone(r.min) \/ ~IsNone(r.max)) THEN [ok |-> TRUE, msg |-> NoMsg]
    ELSE IF IsNone(value) THEN [ok |-> FALSE, msg |-> Msg("missing", None)]
    ELSE IF ~IsNone(r.min) /\ Val(value) <= Val(r.min)
         THEN [ok |-> FALSE, msg |-> Msg("<", r.min)]
    ELSE IF ~IsNone(r.max) /\ Val(value) >= Val(r.max)
         THEN [ok |-> FALSE, msg |-> Msg(">", r.max)]
    ELSE [ok |-> TRUE, msg |-> NoMsg]

\* check_range(value, r) -> (ok, msg)
CheckRange(value, r) ==
    IF ~IsSet(r) THEN [ok |-> TRUE, msg |-> NoMsg]
    ELSE IF IsNone(value) THEN [ok |-> FALSE, msg |-> Msg("missing", None)]
    ELSE IF ~IsNone(r.min) /\ Val(value) < Val(r.min)
         THEN [ok |-> FALSE, msg |-> Msg("<", r.min)]
    ELSE IF ~IsNone(r.max) /\ Val(value) > Val(r.max)
         THEN [ok |-> FALSE, msg |-> Msg(">", r.max)]
    ELSE [ok |-> TRUE, msg |-> NoMsg]

\* the values and the ranges check_range is called on
RangeValues == {None} \cup {Some(v) : v \in 0..MaxValue}
RangeRanges == {Range(lo, hi) : lo \in RangeValues, hi \in RangeValues}

\* check_range was not called yet
NoCheck == [called |-> FALSE, ok |-> TRUE, msg |-> NoMsg]

\* check_range(value, r) is called
EvalRange ==
    /\ ~rc.res.called
    /\ LET res == CheckRange(rc.value, rc.r)
       IN  rc' = [rc EXCEPT !.res = [called |-> TRUE, ok |-> res.ok,
                                     msg |-> res.msg]]
    /\ UNCHANGED win
    /\ UNCHANGED <<tvars, dvars, fvars, pvars, kvars, avars>>

(***************************************************************************)
(* The filter evaluator, src/src/filters.py                                *)
(***************************************************************************)
\* _convert_to_float: None stays None, a number becomes the float of the
\* same value (the metrics hold numbers or None)
ConvertToFloat(value) == IF IsNone(value) THEN None ELSE Some(Val(value))

\* f"{name} {msg}": a failure reason
Reason(name, msg) == [field |-> name, op |-> msg.op, bound |-> msg.bound]

\* lines 19-26: (name, metric, range) of the basic checks, in order
BasicChecks(m, cfg) ==
    << <<"market_cap_usd", m.market_cap, cfg.market_cap_usd>>,
       <<"liquidity_usd", m.liquidity_usd, cfg.liquidity_usd>>,
       <<"top10_ratio", m.top10_ratio, cfg.top10_ratio>>,
       <<"holder_count", m.holders, cfg.holder_count>>,
       <<"max_holder_ratio", m.max_holder_ratio, cfg.max_holder_ratio>>,
       <<"trades_5m", m.trades_5m, cfg.trades_5m>> >>

\* lines 45-48 and 69-72: (name, metric, range) of the risk checks
RiskChecks(m, cfg) ==
    << <<"sol_sniffer_score", m.sol_sniffer_score, cfg.sol_sniffer_score>>,
       <<"token_sniffer_score", m.token_sniffer_score, cfg.token_sniffer_score>> >>

\* a loop that stops at the first check that fails
RangeReasonsShortCircuit(checks) ==
    LET failing == {i \in 1..Len(checks) :
                      ~CheckRange(ConvertToFloat(checks[i][2]), checks[i][3]).ok}
    IN  IF failing = {} THEN <<>>
        ELSE LET i == CHOOSE j \in failing : \A l \in failing : j <= l
             IN  <<Reason(checks[i][1],
                          CheckRange(ConvertToFloat(checks[i][2]), checks[i][3]).msg)>>

\* lines 28-31 and 49-52: for name, value, fr in checks: append the reason of
\* every check that fails
RangeReasons(checks) ==
    LET F[i \in 0..Len(checks)] ==
            IF i = 0 THEN <<>>
            ELSE LET res == CheckRange(ConvertToFloat(checks[i][2]), checks[i][3])
                 IN  IF res.ok THEN F[i - 1]
                     ELSE Append(F[i - 1], Reason(checks[i][1], res.msg))
    IN  F[Len(checks)]

\* an age check that prefers the creation of the pool
OpenTimePoolFirst(m) ==
    IF ~IsNone(m.pool_created_at) THEN m.pool_created_at ELSE m.first_trade_at

\* line 35: metrics.first_trade_at or metrics.pool_created_at
OpenTime(m) ==
    IF ~IsNone(m.first_trade_at) THEN m.first_trade_at ELSE m.pool_created_at

\* lines 34-42: the pool-age check
OpenReasons(m, cfg, now) ==
    IF ~IsSet(cfg.open_minutes) THEN <<>>
    ELSE IF IsNone(OpenTime(m))
         THEN <<Reason("open_minutes", Msg("missing", None))>>
    ELSE LET minutes == now - Val(OpenTime(m))
             res == CheckRange(Some(minutes), cfg.open_minutes)
         IN  IF res.ok THEN <<>> ELSE <<Reason("open_minutes", res.msg)>>

\* the result of an evaluator: (len(reasons) == 0, reasons)
Outcome(reasons) == [passed |-> Len(reasons) = 0, reasons |-> reasons]

\* apply_filters(metrics, cfg, include_risk)
ApplyFilters(m, cfg, include_risk, now) ==
    Outcome(RangeReasons(BasicChecks(m, cfg))
            \o OpenReasons(m, cfg, now)
            \o (IF include_risk THEN RangeReasons(RiskChecks(m, cfg)) ELSE <<>>))

\* apply_basic_filters(metrics, cfg)
ApplyBasicFilters(m, cfg, now) == ApplyFilters(m, cfg, FALSE, now)

\* a risk evaluation that checks a score that is None like any other value
RiskReasonsNoSkip(checks) == RangeReasons(checks)

\* lines 74-85 of apply_risk_filters: a range that is not set and a score
\* that is None are both skipped
RiskReasons(checks) ==
    LET F[i \in 0..Len(checks)] ==
            IF i = 0 THEN <<>>
            ELSE LET fr == checks[i][3]
                     float_value == ConvertToFloat(checks[i][2])
                     res == CheckRange(float_value, fr)
                 IN  IF ~IsSet(fr) THEN F[i - 1]
                     ELSE IF IsNone(float_value) THEN F[i - 1]
                     ELSE IF res.ok THEN F[i - 1]
                     ELSE Append(F[i - 1], Reason(checks[i][1], res.msg))
    IN  F[Len(checks)]

\* apply_risk_filters(metrics, cfg)
ApplyRiskFilters(m, cfg) == Outcome(RiskReasons(RiskChecks(m, cfg)))

\* need_risk_check(cfg)
NeedRiskCheck(cfg) == IsSet(cfg.sol_sniffer_score) \/ IsSet(cfg.token_sniffer_score)

(***************************************************************************)
(* Inputs of the evaluator.                                                *)
(***************************************************************************)
\* the nine filter names of a FilterConfig
FilterNames ==
    {"market_cap_usd", "liquidity_usd", "open_minutes", "top10_ratio",
     "holder_count", "max_holder_ratio", "trades_5m",
     "sol_sniffer_score", "token_sniffer_score"}

\* the optional fields of a TokenMetrics the evaluator reads
MetricNames ==
    {"market_cap", "liquidity_usd", "top10_ratio", "holders",
     "max_holder_ratio", "trades_5m", "first_trade_at", "pool_created_at",
     "sol_sniffer_score", "token_sniffer_score"}

\* the ranges a filter is set to: a lower bound above the metric, an upper
\* bound below it, and a range the metric lies on both ends of
SetRanges == {Range(Some(2), None), Range(None, Some(0)), Range(Some(1), Some(1))}

\* FilterConfig(): every range unset
DefaultConfig == [n \in FilterNames |-> Unset]

\* the configurations with at most MaxSetRanges ranges set
Configs ==
    UNION {{[n \in FilterNames |-> IF n \in S THEN f[n] ELSE Unset] :
                f \in [S -> SetRanges]} :
           S \in {T \in SUBSET FilterNames : Cardinality(T) <= MaxSetRanges}}

\* a snapshot with every metric present: every number is 1, the first trade
\* was a minute ago and the pool was created a minute before that
FullMetrics ==
    [n \in MetricNames |->
        IF n = "first_trade_at" THEN Some(EvalTime - 1)
        ELSE IF n = "pool_created_at" THEN Some(EvalTime - 2)
        ELSE Some(1)]

\* the snapshots with at most MaxNull metrics missing
MetricsSet ==
    {[n \in MetricNames |-> IF n \in S THEN None ELSE FullMetrics[n]] :
        S \in {T \in SUBSET MetricNames : Cardinality(T) <= MaxNull}}

\* the evaluator is called on the inputs
EvalBasic ==
    /\ fres.fn = "none"
    /\ fres' = [fn |-> "basic", out |-> ApplyBasicFilters(fmetrics, fcfg, utcnow)]
    /\ UNCHANGED <<fmetrics, fcfg, utcnow>>
    /\ UNCHANGED <<tvars, dvars, pvars, hvars, kvars, avars>>

EvalRisk ==
    /\ fres.fn = "none"
    /\ fres' = [fn |-> "risk", out |-> ApplyRiskFilters(fmetrics, fcfg)]
    /\ UNCHANGED <<fmetrics, fcfg, utcnow>>
    /\ UNCHANGED <<tvars, dvars, pvars, hvars, kvars, avars>>

EvalAll ==
    /\ fres.fn = "none"
    /\ fres' = [fn |-> "all", out |-> ApplyFilters(fmetrics, fcfg, TRUE, utcnow)]
    /\ UNCHANGED <<fmetrics, fcfg, utcnow>>
    /\ UNCHANGED <<tvars, dvars, pvars, hvars, kvars, avars>>

(***************************************************************************)
(* The time-window gate, TaskScheduler._is_in_time_window                  *)
(* (task_scheduler.py) and its copy BotApp._is_in_time_window (bot.py).    *)
(***************************************************************************)
\* what start_time and end_time may hold: None, the empty string, a string
\* "h:m" of two integer literals (in the ranges of a time of day or not),
\* and a string on which split, the unpacking or int() raises
TimeNone == [kind |-> "none", h |-> 0, m |-> 0]
TimeEmpty == [kind |-> "empty", h |-> 0, m |-> 0]
TimeBad == [kind |-> "bad", h |-> 0, m |-> 0]
TimeHM(h, m) == [kind |-> "hm", h |-> h, m |-> m]

\* the truth value of a start_time or end_time: None and "" are false
TimeTruthy(t) == t.kind \notin {"none", "empty"}

\* h, m = st.split(":") and int(h), int(m) raise
TimeRaises(t) == t.kind = "bad"

\* int(h) * 60 + int(m)
TimeMinutes(t) == t.h * MinutesPerHour + t.m

\* now_dt.hour * 60 + now_dt.minute
NowMinutes(now) == now.hour * MinutesPerHour + now.minute

\* a gate whose lower bound is exclusive when only start is set
WindowDecisionStartExclusive(start_minutes, end_minutes, now_minutes) ==
    IF ~IsNone(start_minutes) /\ ~IsNone(end_minutes)
    THEN IF Val(start_minutes) <= Val(end_minutes)
         THEN Val(start_minutes) <= now_minutes /\ now_minutes <= Val(end_minutes)
         ELSE now_minutes >= Val(start_minutes) \/ now_minutes <= Val(end_minutes)
    ELSE IF ~IsNone(start_minutes) THEN now_minutes > Val(start_minutes)
    ELSE IF ~IsNone(end_minutes) THEN now_minutes <= Val(end_minutes)
    ELSE TRUE

\* a gate that does not wrap past midnight
WindowDecisionNoWrap(start_minutes, end_minutes, now_minutes) ==
    IF ~IsNone(start_minutes) /\ ~IsNone(end_minutes)
    THEN Val(start_minutes) <= now_minutes /\ now_minutes <= Val(end_minutes)
    ELSE IF ~IsNone(start_minutes) THEN now_minutes >= Val(start_minutes)
    ELSE IF ~IsNone(end_minutes) THEN now_minutes <= Val(end_minutes)
    ELSE TRUE

\* task_scheduler.py lines 372-383 (bot.py lines 1774-1785): the decision on
\* the parsed bounds
WindowDecision(start_minutes, end_minutes, now_minutes) ==
    IF ~IsNone(start_minutes) /\ ~IsNone(end_minutes)
    THEN IF Val(start_minutes) <= Val(end_minutes)
         THEN Val(start_minutes) <= now_minutes /\ now_minutes <= Val(end_minutes)
         ELSE now_minutes >= Val(start_minutes) \/ now_minutes <= Val(end_minutes)
    ELSE IF ~IsNone(start_minutes) THEN now_minutes >= Val(start_minutes)
    ELSE IF ~IsNone(end_minutes) THEN now_minutes <= Val(end_minutes)
    ELSE TRUE

\* TaskScheduler._is_in_time_window(task), at the time of day `now`
IsInTimeWindow(start_time, end_time, now) ==
    IF ~TimeTruthy(start_time) /\ ~TimeTruthy(end_time) THEN TRUE
    ELSE IF \/ TimeTruthy(start_time) /\ TimeRaises(start_time)
            \/ TimeTruthy(end_time) /\ TimeRaises(end_time)
         THEN TRUE
    ELSE WindowDecision(
            IF TimeTruthy(start_time) THEN Some(TimeMinutes(start_time)) ELSE None,
            IF TimeTruthy(end_time) THEN Some(TimeMinutes(end_time)) ELSE None,
            NowMinutes(now))

\* BotApp._is_in_time_window(start_time, end_time), at the time of day `now`
BotIsInTimeWindow(start_time, end_time, now) ==
    IF ~TimeTruthy(start_time) /\ ~TimeTruthy(end_time) THEN TRUE
    ELSE IF \/ TimeTruthy(start_time) /\ TimeRaises(start_time)
            \/ TimeTruthy(end_time) /\ TimeRaises(end_time)
         THEN TRUE
    ELSE WindowDecision(
            IF TimeTruthy(start_time) THEN Some(TimeMinutes(start_time)) ELSE None,
            IF TimeTruthy(end_time) THEN Some(TimeMinutes(end_time)) ELSE None,
            NowMinutes(now))

\* the times of day: datetime.now(TZ_SHANGHAI).hour and .minute
TimesOfDay ==
    {[hour |-> h, minute |-> m] :
        h \in 0..(HoursPerDay - 1), m \in 0..(MinutesPerHour - 1)}

\* the strings the gate is called on: midnight, two times in the morning,
\* the last minute of the day, an hour of 24 and a minute of 60
ValidTimes == {TimeHM(0, 0), TimeHM(9, 0), TimeHM(9, 30), TimeHM(23, 59)}
OutOfRangeTimes == {TimeHM(HoursPerDay, 0), TimeHM(9, MinutesPerHour)}
TimeStrings ==
    {TimeNone, TimeEmpty, TimeBad} \cup ValidTimes \cup OutOfRangeTimes

\* the gate was not called yet
NoGate == [fn |-> "none", val |-> TRUE]

\* the scheduler's gate is called
SchedulerGate ==
    /\ win.res.fn = "none"
    /\ win' = [win EXCEPT !.res =
                 [fn |-> "scheduler",
                  val |-> IsInTimeWindow(win.start_time, win.end_time, win.now)]]
    /\ UNCHANGED rc
    /\ UNCHANGED <<tvars, dvars, fvars, pvars, kvars, avars>>

\* the bot's gate is called
BotGate ==
    /\ win.res.fn = "none"
    /\ win' = [win EXCEPT !.res =
                 [fn |-> "bot",
                  val |-> BotIsInTimeWindow(win.start_time, win.end_time, win.now)]]
    /\ UNCHANGED rc
    /\ UNCHANGED <<tvars, dvars, fvars, pvars, kvars, avars>>

(***************************************************************************)
(* process_ca (main.py): one contract address is deduplicated, fetched,    *)
(* filtered in two phases, rendered and pushed.  Every await on the        *)
(* network is a point where the invocations interleave; the awaits on the  *)
(* locks of DedupeStore and StateStore never suspend, because no holder of *)
(* those locks awaits while holding them.                                  *)
(***************************************************************************)
Invocations == 1..NumInvocations

\* the task ids of StateStore._state["tasks"]
TaskIds == {"t1", "t2"}

\* contract addresses as CA_PATTERN finds them: an EVM address of 42
\* characters starting with 0x, and a base58 address of 44 characters
CAs ==
    {[name |-> "0xA", hex |-> TRUE, len |-> 42],
     [name |-> "SoB", hex |-> FALSE, len |-> 44]}

\* chain_hint(address)
ChainHint(ca) ==
    IF ca.hex /\ ca.len = 42 THEN "bsc"
    ELSE IF ca.len >= 32 /\ ca.len <= 44 THEN "solana"
    ELSE "bsc"

\* line 180: task_id or await state.current_task()
TaskInUse(task_id, current) == IF ~IsNone(task_id) THEN task_id ELSE current

\* a dedupe key that leaves the task out
KeyOfNoTask(task, chain, ca) == <<"global", chain, ca.name>>

\* line 184: f"{task_id_in_use or 'global'}:{chain}:{ca}"; the three parts are
\* kept apart, as the chain and the address contain no colon
KeyOf(task, chain, ca) ==
    <<IF IsNone(task) THEN "global" ELSE Val(task), chain, ca.name>>

\* StateStore.filters_cfg(task_id): the filters of the task, the default
\* configuration for a task that is not stored
FiltersCfg(tasks, task) ==
    IF ~IsNone(task) /\ Val(task) \in DOMAIN tasks
    THEN tasks[Val(task)].filters ELSE DefaultConfig

\* lines 336-338: the push targets of the task snapshot
Targets(tasks, task) ==
    IF ~IsNone(task) /\ Val(task) \in DOMAIN tasks
    THEN tasks[Val(task)].push_chats ELSE <<>>

\* what fetch_all returns: the risk scores are not fetched yet, and the
\* holder count may be missing
FetchedMetrics ==
    {[FullMetrics EXCEPT !.sol_sniffer_score = None,
                         !.token_sniffer_score = None,
                         !.holders = h] : h \in {None, Some(1)}}

\* the scores fetch_risk_scores may store: _fetch_sol_sniffer_score returns
\* None for a chain other than solana, and either fetch returns None when
\* the request fails
SolScores(chain) ==
    IF chain = "solana" THEN {None, Some(1), Some(2)} ELSE {None}
TokenScores == {None, Some(1)}

\* the filters of the two tasks: t1 bounds the holder count and the
\* SolSniffer score, t2 the holder count only
TaskFilters ==
    [t \in TaskIds |->
        IF t = "t1"
        THEN [DefaultConfig EXCEPT !.holder_count = Range(Some(1), Some(1)),
                                   !.sol_sniffer_score = Range(Some(1), Some(1))]
        ELSE [DefaultConfig EXCEPT !.holder_count = Range(Some(1), Some(1))]]

\* the push targets of the two tasks: a chat and a bot for t1, none for t2
TaskPushChats == [t \in TaskIds |-> IF t = "t1" THEN <<"-1001", "@bot">> ELSE <<>>]

\* the locals of an invocation before it has run: basic_passed is not
\* assigned, no reason is collected, fetch_risk_scores was not called,
\* nothing was sent and nothing returned
NoOut ==
    [basic_passed |-> None, passed |-> FALSE, reasons |-> <<>>,
     risk_calls |-> 0, sent |-> <<>>, idx |-> 0, ret |-> "none",
     steps |-> <<>>]

\* the steps an invocation went through are appended to `steps` in the order
\* in which the code reaches them
Did(out, new) == [out EXCEPT !.steps = @ \o new]

\* the invocation returns
Return(p, out, ret) ==
    /\ ppc' = [ppc EXCEPT ![p] = "done"]
    /\ pout' = [pout EXCEPT ![p] = [out EXCEPT !.ret = ret]]
    /\ pm' = [pm EXCEPT ![p] = FullMetrics]

\* an invocation that looks the key up whether forced or not
ChecksDedupeAlways(force_push) == TRUE

\* line 187, `if not force_push`: only an automatic invocation calls
\* dedupe.seen
ChecksDedupe(force_push) == ~force_push

\* lines 180-194: the task is chosen, the key is built and, unless the push is
\* forced, looked up in the dedupe store
PcaStart(p, chain, ca, force_push, task_id) ==
    /\ ppc[p] = "idle"
    /\ p > 1 => ppc[p - 1] # "idle"
    /\ LET task == TaskInUse(task_id, st_current)
           key == KeyOf(task, chain, ca)
           r == SeenBody(memory, key, Some(PcaTTL), clock, last_cleanup)
       IN  /\ pin' = [pin EXCEPT ![p] = [chain |-> chain, ca |-> ca,
                                         force_push |-> force_push,
                                         task |-> task]]
           /\ IF ~ChecksDedupe(force_push)
              THEN /\ ppc' = [ppc EXCEPT ![p] = "fetch"]
                   /\ UNCHANGED <<memory, last_cleanup, pout, pm>>
              ELSE /\ memory' = r[2]
                   /\ last_cleanup' = LastCleanupAfter(clock, last_cleanup)
                   /\ IF r[1] = "true"
                      THEN Return(p, Did(pout[p], <<"dedupe">>), "skipped")
                      ELSE /\ ppc' = [ppc EXCEPT ![p] = "fetch"]
                           /\ pout' = [pout EXCEPT ![p] =
                                         Did(@, <<"dedupe">>)]
                           /\ UNCHANGED pm
    /\ UNCHANGED <<st_current, st_tasks, st_file, st_ret>>
    /\ UNCHANGED <<tvars, cvars, fvars, hvars, kvars, avars>>

\* lines 204-221 and 280-303: the chart or the metrics cannot be fetched, or
\* the chart has no bars
PcaFetchFail(p, err) ==
    /\ ppc[p] = "fetch"
    /\ Return(p, Did(pout[p], <<"fetch">>), err)
    /\ UNCHANGED <<st_current, st_tasks, pin, st_file, st_ret>>
    /\ UNCHANGED <<tvars, dvars, fvars, hvars, kvars, avars>>

\* a push that does not look at the verdict of the filters
WantsPushUnfiltered(passed, targets) == Len(targets) > 0

\* lines 335-340: the automatic push takes place when the filters passed
\* and the task has push targets
WantsPush(passed, targets) == passed /\ Len(targets) > 0

\* a pipeline that sends to the targets before it renders the chart
FinishSendsFirst(p, filtered, rendered) ==
    LET targets == Targets(st_tasks, pin[p].task)
        pushes == ~pin[p].force_push /\ filtered.passed /\ Len(targets) > 0
        out == [filtered EXCEPT
                  !.sent = IF pushes THEN targets ELSE @,
                  !.steps = @ \o (IF pushes THEN <<"notify">> ELSE <<>>)
                              \o <<"render">>]
    IN  IF ~rendered THEN Return(p, out, "render_error")
        ELSE IF pin[p].force_push
             THEN Return(p, out, IF out.passed THEN "ok" ELSE "filtered")
        ELSE Return(p, out, "ok")

\* lines 305-399 up to the first send: the caption is built and the chart is
\* rendered, after which `metrics` is not read again; a forced invocation
\* returns, an automatic one pushes what passed to the targets
Finish(p, filtered, rendered) ==
    LET out == Did(filtered, <<"render">>)
    IN  IF ~rendered THEN Return(p, out, "render_error")
        ELSE IF pin[p].force_push
             THEN Return(p, out, IF out.passed THEN "ok" ELSE "filtered")
        ELSE IF WantsPush(out.passed, Targets(st_tasks, pin[p].task))
             THEN /\ ppc' = [ppc EXCEPT ![p] = "push"]
                  /\ pout' = [pout EXCEPT ![p] = [out EXCEPT !.idx = 1]]
                  /\ pm' = [pm EXCEPT ![p] = FullMetrics]
        ELSE Return(p, out, "ok")

\* an invocation that asks for the risk scores before it fetched the token
\* and applied the basic filters
RiskFetchFirst(wants_risk) ==
    (IF wants_risk THEN <<"risk_fetch">> ELSE <<>>)
        \o <<"fetch", "basic_filter">>

\* lines 201-263: the chart and the metrics are fetched (201-213), the basic
\* filters are applied (250) and then, when wanted, fetch_risk_scores is
\* awaited (263)
FetchSteps(wants_risk) ==
    <<"fetch", "basic_filter">>
        \o (IF wants_risk THEN <<"risk_fetch">> ELSE <<>>)

\* a risk phase that runs whenever a risk range is set
WantsRiskUnlessBasic(basic_passed, cfg) == NeedRiskCheck(cfg)

\* lines 259-261: the risk scores are fetched when the basic filters passed
\* and a risk range is set
WantsRisk(basic_passed, cfg) == basic_passed /\ NeedRiskCheck(cfg)

\* lines 213-275: chart and metrics arrive; the basic filters are applied, and
\* either fetch_risk_scores is awaited or the invocation goes on to render
PcaFetchOk(p, m, rendered) ==
    /\ ppc[p] = "fetch"
    /\ LET cfg == FiltersCfg(st_tasks, pin[p].task)
           basic == ApplyBasicFilters(m, cfg, utcnow)
           out == [pout[p] EXCEPT !.basic_passed = Some(basic.passed),
                                  !.passed = basic.passed,
                                  !.reasons = basic.reasons,
                                  !.steps = @ \o FetchSteps(
                                      WantsRisk(basic.passed, cfg))]
       IN  IF WantsRisk(basic.passed, cfg)
           THEN /\ ppc' = [ppc EXCEPT ![p] = "risk"]
                /\ pout' = [pout EXCEPT ![p] =
                              [out EXCEPT !.risk_calls = @ + 1]]
                /\ pm' = [pm EXCEPT ![p] = m]
           ELSE Finish(p, out, rendered)
    /\ UNCHANGED <<st_current, st_tasks, pin, st_file, st_ret>>
    /\ UNCHANGED <<tvars, dvars, fvars, hvars, kvars, avars>>

\* lines 263-271, then 305 onwards: fetch_risk_scores has stored the scores;
\* the risk filters decide, their reasons are appended
PcaRisk(p, sol, tok, rendered) ==
    /\ ppc[p] = "risk"
    /\ LET cfg == FiltersCfg(st_tasks, pin[p].task)
           m == [pm[p] EXCEPT !.sol_sniffer_score = sol,
                              !.token_sniffer_score = tok]
           risk == ApplyRiskFilters(m, cfg)
           out == [pout[p] EXCEPT !.passed = risk.passed,
                                  !.reasons = @ \o risk.reasons,
                                  !.steps = Append(@, "risk_filter")]
       IN  Finish(p, out, rendered)
    /\ UNCHANGED <<st_current, st_tasks, pin, st_file, st_ret>>
    /\ UNCHANGED <<tvars, dvars, fvars, hvars, kvars, avars>>

\* lines 394-395: the exception of a send is caught inside the loop body
PushGoesOn(delivered) == TRUE

\* lines 341-393: one target of the loop; a send that raises is logged and
\* the loop goes on
PcaPush(p, delivered) ==
    /\ ppc[p] = "push"
    /\ LET targets == Targets(st_tasks, pin[p].task)
           i == pout[p].idx
           out == [pout[p] EXCEPT
                     !.sent = IF delivered THEN Append(@, targets[i]) ELSE @,
                     !.idx = i + 1,
                     !.steps = Append(@, "notify")]
       IN  IF i = Len(targets) \/ ~PushGoesOn(delivered)
           THEN Return(p, out, "ok")
           ELSE /\ pout' = [pout EXCEPT ![p] = out]
                /\ UNCHANGED <<ppc, pm>>
    /\ UNCHANGED <<st_current, st_tasks, pin, st_file, st_ret>>
    /\ UNCHANGED <<tvars, dvars, fvars, hvars, kvars, avars>>

\* the errors of the fetch
FetchErrors == {"chart_error", "fetch_error", "no_bars"}

\* the triple (photo, caption, error_message) process_ca returns: nothing at
\* all when the key was seen (194), the error alone after a failed fetch
\* (210, 221, 299, 303) or a failed rendering (322), all three to a manual
\* query for a token the filters reject (330), photo and caption otherwise
\* (332, 399)
Result(ret) ==
    IF ret = "skipped"
    THEN [photo |-> FALSE, caption |-> FALSE, error |-> None]
    ELSE IF ret \in FetchErrors \cup {"render_error"}
    THEN [photo |-> FALSE, caption |-> FALSE, error |-> Some(ret)]
    ELSE IF ret = "filtered"
    THEN [photo |-> TRUE, caption |-> TRUE, error |-> Some(ret)]
    ELSE [photo |-> TRUE, caption |-> TRUE, error |-> None]

\* no invocation has started
InitPcaIdle ==
    /\ ppc = [p \in Invocations |-> "idle"]
    /\ pin = [p \in Invocations |->
                [chain |-> "bsc", ca |-> CHOOSE ca \in CAs : ca.hex,
                 force_push |-> FALSE, task |-> None]]
    /\ pm = [p \in Invocations |-> FullMetrics]
    /\ pout = [p \in Invocations |-> NoOut]

\* the state file without tasks, for the specifications that do not use it
InitStateEmpty ==
    /\ st_current = None
    /\ st_tasks = <<>>
    /\ st_file = st_tasks
    /\ st_ret = "none"

\* the state file: the two tasks; a current task may be selected
InitState ==
    /\ st_current \in {None, Some("t1")}
    /\ st_tasks = [t \in TaskIds |->
                     [filters |-> TaskFilters[t],
                      push_chats |-> TaskPushChats[t]]]
    /\ st_file = st_tasks
    /\ st_ret = "none"

(***************************************************************************)
(* StateStore.set_filter (state.py)                                        *)
(***************************************************************************)
\* the names set_filter is called with: two of the nine filters and a name
\* that is none of them
StoreNames == {"holder_count", "trades_5m", "volume_24h"}

\* the task_id argument: left out, a task the store holds, a task it does
\* not hold
StoreTaskArgs == {None, Some("t1"), Some("t3")}

\* the bounds set_filter is called with
StoreBounds == {None, Some(1)}

\* _ensure_task (lines 122-131): a task the store does not hold is created
\* in memory with the default filters and no chats
EnsureTask(tasks, id) ==
    IF id \in DOMAIN tasks THEN tasks
    ELSE [t \in DOMAIN tasks \cup {id} |->
            IF t = id THEN [filters |-> DefaultConfig, push_chats |-> <<>>]
            ELSE tasks[t]]

\* set_filter (lines 230-240), under the lock and without an await before
\* _write: without a task it returns, an unknown name raises ValueError
\* after _ensure_task has run, a known name is set and the document written
SetFilter(name, min_val, max_val, task_id) ==
    /\ LET tid == TaskInUse(task_id, st_current)
       IN  IF IsNone(tid)
           THEN /\ st_ret' = "returned"
                /\ UNCHANGED <<st_tasks, st_file>>
           ELSE LET ensured == EnsureTask(st_tasks, Val(tid))
                IN  IF name \notin DOMAIN ensured[Val(tid)].filters
                    THEN /\ st_tasks' = ensured
                         /\ st_ret' = "ValueError"
                         /\ UNCHANGED st_file
                    ELSE /\ st_tasks' =
                              [ensured EXCEPT ![Val(tid)].filters[name] =
                                                 Range(min_val, max_val)]
                         /\ st_file' = st_tasks'
                         /\ st_ret' = "returned"
    /\ UNCHANGED <<st_current, ppc, pin, pm, pout>>
    /\ UNCHANGED <<tvars, dvars, fvars, hvars, kvars, avars>>

(***************************************************************************)
(* TaskScheduler (task_scheduler.py): the loop that opens and closes the   *)
(* tasks with their time windows and fires the tasks that are due, the     *)
(* executions it spawns, and the operator's pause and resume.  One         *)
(* iteration of the loop contains no await and runs as one step; it reads  *)
(* the clock once.                                                         *)
(***************************************************************************)
\* the ids of the scheduled tasks, in the order of TaskScheduler.tasks
SchedOrder == <<"s1", "s2">>
SchedIds == {SchedOrder[i] : i \in 1..Len(SchedOrder)}

\* interval_minutes and targets of the tasks
SchedInterval == [id \in SchedIds |-> 5]
SchedTargets == [id \in SchedIds |-> IF id = "s1" THEN <<"-1001", "@bot">> ELSE <<"-1002">>]

\* the ids that are also tasks of the StateStore
StateSchedIds == {"s1"}

\* the windows of task s1: one that opens and closes after the start, one
\* that is open at the start and closes later
SchedWindows ==
    {[start_time |-> TimeHM(8, 20), end_time |-> TimeHM(8, 25)],
     [start_time |-> TimeHM(8, 0), end_time |-> TimeHM(8, 20)]}
NoWindow == [start_time |-> TimeNone, end_time |-> TimeNone]

\* the amount by which the clock advances between two steps: the interval
\* of the tasks
SchedJumps == {SchedInterval["s1"] * SecondsPerMinute}

SecondsPerDay == HoursPerDay * MinutesPerHour * SecondsPerMinute

\* the seconds since midnight in Shanghai at the epoch time `now`
ShanghaiSeconds(now) ==
    (now + TzOffsetHours * MinutesPerHour * SecondsPerMinute) % SecondsPerDay

\* datetime.now(TZ_SHANGHAI): hour and minute
ShanghaiNow(now) ==
    LET minutes == ShanghaiSeconds(now) \div SecondsPerMinute
    IN  [hour |-> minutes \div MinutesPerHour, minute |-> minutes % MinutesPerHour]

\* line 161: task.get("start_time") or task.get("end_time")
HasWindowAlways(task) == TRUE
HasWindow(task) == TimeTruthy(task.start_time) \/ TimeTruthy(task.end_time)

\* self._is_in_time_window(task) at the epoch time `now`
TaskInWindow(task, now) ==
    IsInTimeWindow(task.start_time, task.end_time, ShanghaiNow(now))

\* lines 189-206: the next opening of the window, today if the start is
\* still ahead and tomorrow otherwise; None when there is no start or when
\* the split, int() or datetime.replace raises
NextWindowStart(task, now) ==
    LET st == task.start_time
    IN  IF ~TimeTruthy(st) \/ TimeRaises(st) THEN None
        ELSE IF st.h \notin 0..(HoursPerDay - 1) \/ st.m \notin 0..(MinutesPerHour - 1)
             THEN None
        ELSE LET today == now - ShanghaiSeconds(now)
                          + TimeMinutes(st) * SecondsPerMinute
             IN  IF NowMinutes(ShanghaiNow(now)) < TimeMinutes(st)
                 THEN Some(today)
                 ELSE Some(today + SecondsPerDay)

\* a firing that leaves next_run where it was
NextRunNotAdvanced(now, interval_minutes) == now

\* line 238: now + task["interval_minutes"] * 60
NextRunAfterFire(now, interval_minutes) == now + interval_minutes * SecondsPerMinute

\* lines 162-186: the task after the automatic opening and closing, and what
\* was done: "off", "on" or "none"
AutoToggle(task, now) ==
    IF HasWindow(task) /\ task.enabled /\ ~TaskInWindow(task, now)
    THEN [task |-> [task EXCEPT !.enabled = FALSE], toggle |-> "off"]
    ELSE IF HasWindow(task) /\ ~task.enabled /\ TaskInWindow(task, now)
    THEN [task |-> [task EXCEPT !.enabled = TRUE, !.next_run = now], toggle |-> "on"]
    ELSE [task |-> task, toggle |-> "none"]

\* lines 148-242, the body of the loop for one task: the task afterwards,
\* the toggle, the task as it was when the toggle was saved, and whether an
\* execution was spawned
TickTask(id, task, now) ==
    LET auto == AutoToggle(task, now)
        t1 == auto.task
        base == [toggle |-> auto.toggle, at_save |-> t1, fire |-> FALSE]
    IN  IF ~t1.enabled THEN [task |-> t1] @@ base
        ELSE IF ~TaskInWindow(t1, now)
        THEN LET nws == NextWindowStart(t1, now)
             IN  [task |-> IF IsNone(nws) THEN t1
                           ELSE [t1 EXCEPT !.next_run = Val(nws)]] @@ base
        ELSE IF now >= t1.next_run
        THEN [task |-> [t1 EXCEPT !.next_run = NextRunAfterFire(now, SchedInterval[id])],
              toggle |-> auto.toggle, at_save |-> t1, fire |-> TRUE]
        ELSE [task |-> t1] @@ base

\* the loop over self.tasks from position i on: the tasks and the saved
\* configuration afterwards, the executions spawned and the state
\* synchronisations spawned, in order
RECURSIVE LoopFrom(_, _, _, _)
LoopFrom(i, tasks, saved, now) ==
    IF i > Len(SchedOrder)
    THEN [tasks |-> tasks, saved |-> saved, fired |-> <<>>, syncs |-> <<>>]
    ELSE IF SchedOrder[i] \notin DOMAIN tasks
    THEN LoopFrom(i + 1, tasks, saved, now)
    ELSE LET id == SchedOrder[i]
             r == TickTask(id, tasks[id], now)
             \* update_tasks_config writes the whole list as it is then
             saved1 == IF r.toggle = "none" THEN saved
                       ELSE [t \in DOMAIN tasks |->
                               LET cur == IF t = id THEN r.at_save ELSE tasks[t]
                               IN  [enabled |-> cur.enabled,
                                    next_run |-> Some(cur.next_run)]]
             rest == LoopFrom(i + 1, [tasks EXCEPT ![id] = r.task], saved1, now)
         IN  [tasks |-> rest.tasks,
              saved |-> rest.saved,
              fired |-> (IF r.fire THEN <<id>> ELSE <<>>) \o rest.fired,
              syncs |-> (IF r.toggle = "none" THEN <<>>
                         ELSE <<[id |-> id, enabled |-> r.toggle = "on"]>>)
                        \o rest.syncs]

\* an execution that has been spawned and has not started
NewRun(id) == [id |-> id, pc |-> "start", k |-> 0, text |-> "none",
               msg |-> "none"]

\* a loop that awaits the executions it started before its next iteration
LoopAwaitsRuns(runs) == runs # EmptyBag

\* line 242: the execution is handed to asyncio.create_task and is not
\* awaited; the loop waits for nothing but its sleep of line 243
LoopWaits(runs) == FALSE

\* the iteration stays within the bounds on executions and synchronisations
LoopWithinBounds ==
    LET r == LoopFrom(1, sch_tasks, sch_saved, clock)
    IN  /\ BagCardinality(sch_runs) + Len(r.fired) <= MaxRuns
        /\ Len(sch_sync) + Len(r.syncs) <= MaxSyncs

\* lines 145 and 243: the loop starts its next iteration when its sleep is
\* over, provided its task is alive
LoopCanRun == sch_loop.alive /\ ~LoopWaits(sch_runs) /\ LoopWithinBounds

\* _run_loop, one iteration (lines 146-242)
RunLoop ==
    LET r == LoopFrom(1, sch_tasks, sch_saved, clock)
    IN  /\ LoopCanRun
        /\ sch_tasks' = r.tasks
        /\ sch_saved' = r.saved
        /\ sch_runs' = sch_runs
                         (+) SetToBag({NewRun(r.fired[j]) : j \in 1..Len(r.fired)})
        /\ sch_sync' = sch_sync \o r.syncs
        /\ UNCHANGED <<st_enabled, sch_ops, sch_hold>>
        /\ UNCHANGED <<tvars, dvars, fvars, pvars, hvars, avars>>

\* what update_tasks_config writes for the tasks
Saved(tasks) ==
    [t \in DOMAIN tasks |-> [enabled |-> tasks[t].enabled,
                             next_run |-> Some(tasks[t].next_run)]]

\* what a command reports to the operator: the command and its success
Ret(op, ok) == Some([op |-> op, ok |-> ok])

\* the operator's last explicit pause or resume of a task, and when
NoHold == [kind |-> "none", at |-> 0]

\* pause(task_id), lines 126-132, for a task of the scheduler
Pause(id) ==
    /\ sch_ops < MaxOps
    /\ sch_ops' = sch_ops + 1
    /\ IF id \in DOMAIN sch_tasks
       THEN /\ sch_tasks' = [sch_tasks EXCEPT ![id].enabled = FALSE]
            /\ sch_saved' = Saved(sch_tasks')
            /\ sch_hold' = [sch_hold EXCEPT ![id] = [kind |-> "paused", at |-> clock]]
            /\ sch_ret' = Ret("pause", TRUE)
       ELSE /\ UNCHANGED <<sch_tasks, sch_saved, sch_hold>>
            /\ sch_ret' = Ret("pause", FALSE)
    /\ UNCHANGED <<sch_runs, sch_sync, st_enabled, sch_loop, ld, st_doc>>
    /\ UNCHANGED <<tvars, dvars, fvars, pvars, hvars>>

\* resume(task_id), lines 134-142, for a task of the scheduler
Resume(id) ==
    /\ sch_ops < MaxOps
    /\ sch_ops' = sch_ops + 1
    /\ IF id \in DOMAIN sch_tasks
       THEN /\ sch_tasks' = [sch_tasks EXCEPT ![id].enabled = TRUE,
                                              ![id].next_run = clock]
            /\ sch_saved' = Saved(sch_tasks')
            /\ sch_hold' = [sch_hold EXCEPT ![id] = [kind |-> "resumed", at |-> clock]]
            /\ sch_ret' = Ret("resume", TRUE)
       ELSE /\ UNCHANGED <<sch_tasks, sch_saved, sch_hold>>
            /\ sch_ret' = Ret("resume", FALSE)
    /\ UNCHANGED <<sch_runs, sch_sync, st_enabled, sch_loop, ld, st_doc>>
    /\ UNCHANGED <<tvars, dvars, fvars, pvars, hvars>>

\* the "task_disable" button of the bot (bot.py 1028-1038): the flag of the
\* state file, when it holds the task, then the scheduler's flag, then the
\* configuration is saved
TaskDisable(id) ==
    /\ sch_ops < MaxOps
    /\ sch_ops' = sch_ops + 1
    /\ st_enabled' = IF id \in DOMAIN st_enabled
                     THEN [st_enabled EXCEPT ![id] = FALSE]
                     ELSE st_enabled
    /\ IF id \in DOMAIN sch_tasks
       THEN /\ sch_tasks' = [sch_tasks EXCEPT ![id].enabled = FALSE]
            /\ sch_hold' = [sch_hold EXCEPT ![id] = [kind |-> "paused", at |-> clock]]
       ELSE UNCHANGED <<sch_tasks, sch_hold>>
    /\ sch_saved' = Saved(sch_tasks')
    /\ sch_ret' = Ret("task_disable", TRUE)
    /\ UNCHANGED <<sch_runs, sch_sync, sch_loop, ld, st_doc>>
    /\ UNCHANGED <<tvars, dvars, fvars, pvars, hvars>>

\* what add_task writes for the tasks (lines 109-123): the entries have no
\* next_run
SavedByAdd(tasks) ==
    [t \in DOMAIN tasks |-> [enabled |-> tasks[t].enabled, next_run |-> None]]

\* the task /add_task builds (bot.py 387-396): enabled, without a window
AddedTask(now) ==
    [enabled |-> TRUE, next_run |-> now,
     start_time |-> TimeNone, end_time |-> TimeNone]

\* an add_task that takes the task although its id is present
AddTaskOverwrites(tasks, id, now) ==
    [t \in DOMAIN tasks \cup {id} |-> IF t = id THEN AddedTask(now) ELSE tasks[t]]

\* add_task (lines 102-124), the task list afterwards: a task whose id is
\* present is refused
AddTaskTo(tasks, id, now) ==
    IF id \in DOMAIN tasks THEN tasks
    ELSE [t \in DOMAIN tasks \cup {id} |-> IF t = id THEN AddedTask(now) ELSE tasks[t]]

\* /add_task (bot.py 364-397) with add_task (lines 102-124)
AddTask(id) ==
    /\ sch_ops < MaxOps
    /\ sch_ops' = sch_ops + 1
    /\ sch_tasks' = AddTaskTo(sch_tasks, id, clock)
    /\ sch_saved' = IF id \in DOMAIN sch_tasks THEN sch_saved
                    ELSE SavedByAdd(sch_tasks')
    /\ sch_ret' = Ret("add_task", id \notin DOMAIN sch_tasks)
    /\ UNCHANGED <<sch_runs, sch_sync, st_enabled, sch_hold, sch_loop, ld, st_doc>>
    /\ UNCHANGED <<tvars, dvars, fvars, pvars, hvars>>

\* the "task_delete" button of the bot (bot.py 1039-1043) with
\* StateStore.delete_task (state.py 145-153): the task leaves the state
\* file, and the current task is reset when it was the one deleted
TaskDelete(id) ==
    /\ sch_ops < MaxOps
    /\ sch_ops' = sch_ops + 1
    /\ st_enabled' = [t \in DOMAIN st_enabled \ {id} |-> st_enabled[t]]
    /\ st_doc' = [t \in DOMAIN st_doc \ {id} |-> st_doc[t]]
    /\ st_current' = IF st_current = Some(id) THEN None ELSE st_current
    /\ sch_ret' = Ret("task_delete", id \in DOMAIN st_enabled)
    /\ UNCHANGED <<sch_tasks, sch_saved, sch_runs, sch_sync, sch_hold, sch_loop, ld>>
    /\ UNCHANGED <<st_tasks, ppc, pin, pm, pout, st_file, st_ret>>
    /\ UNCHANGED <<tvars, dvars, fvars, hvars>>

\* the texts _run_task hands to _send_to_targets: the failure message of
\* line 407, the "no data" message of line 410, the caption of line 412
Texts == {"failure", "nodata", "caption"}

\* lines 405-412: what is sent for what process_ca returned
TextOf(outcome) ==
    IF outcome = "error" THEN "failure"
    ELSE IF outcome = "empty" THEN "nodata"
    ELSE "caption"

\* the targets of the tasks that are strings starting with @
AtTargets == {"@bot"}

\* line 420: a target that is a string starting with @ is taken for a bot
IsBotTarget(target) == target \in AtTargets

\* a send that gives every target the text
PayloadIsText(target, text) == text

\* lines 421-436: what the client is asked to send to the target. _run_task
\* always passes the task's ca, which load_tasks requires to be set, so a
\* bot is sent the address (`ca or text`) and any other target the text
Payload(target, text) == IF IsBotTarget(target) THEN "ca" ELSE text

\* the execution r about to send the text to its k-th target
SendTo(r, k, text) ==
    [r EXCEPT !.pc = "send", !.k = k, !.text = text,
              !.msg = Payload(SchedTargets[r.id][k], text)]

\* the positions an execution can be at: before its start, inside
\* process_ca, and sending to the k-th target
RunStates ==
    {NewRun(id) : id \in SchedIds}
        \cup {[NewRun(id) EXCEPT !.pc = "pca"] : id \in SchedIds}
        \cup UNION {{SendTo(NewRun(id), k, text) :
                        k \in 1..Len(SchedTargets[id]), text \in Texts} :
                     id \in SchedIds}

\* the executions in flight when the execution at r ends, and when it moves
\* on to the position `next`
RunEnds(r) == sch_runs (-) SetToBag({r})
RunMoves(r, next) == RunEnds(r) (+) SetToBag({next})

\* _run_task up to the call of process_ca (lines 386-405): the execution
\* ends when the task is outside its window or its client is not connected
RunStart(r, has_client) ==
    /\ BagIn(r, sch_runs)
    /\ r.pc = "start"
    /\ sch_runs' = IF TaskInWindow(sch_tasks[r.id], clock) /\ has_client
                   THEN RunMoves(r, [r EXCEPT !.pc = "pca"])
                   ELSE RunEnds(r)
    /\ UNCHANGED <<sch_tasks, sch_saved, sch_sync, st_enabled, sch_ops, sch_hold>>
    /\ UNCHANGED <<tvars, dvars, fvars, pvars, hvars, avars>>

\* what process_ca gives to _run_task: an error message, no caption, a
\* caption, or an exception
PcaOutcomes == {"error", "empty", "ok", "raised"}

\* the outcomes in which process_ca returns
ReturnedOutcomes == PcaOutcomes \ {"raised"}

\* an exception of the pipeline that leaves _run_task and ends the loop
RunRaisedStopsLoop(loop) == [alive |-> FALSE, logged |-> TRUE]

\* lines 415-416, `except Exception`: the error is logged and nothing else
\* happens; the loop is not concerned
RunRaised(loop) == [loop EXCEPT !.logged = TRUE]

\* _run_task when process_ca returns (lines 405-416): an exception is
\* logged and ends the execution, anything else is sent to the targets
RunPca(r, outcome) ==
    /\ BagIn(r, sch_runs)
    /\ r.pc = "pca"
    /\ sch_runs' = IF outcome = "raised" \/ Len(SchedTargets[r.id]) = 0
                   THEN RunEnds(r)
                   ELSE RunMoves(r, SendTo(r, 1, TextOf(outcome)))
    /\ sch_loop' = IF outcome = "raised" THEN RunRaised(sch_loop) ELSE sch_loop
    /\ UNCHANGED <<sch_tasks, sch_saved, sch_sync, st_enabled, sch_ops, sch_hold,
                   sch_ret, ld, st_doc>>
    /\ UNCHANGED <<tvars, dvars, fvars, pvars, hvars>>

\* a loop over the targets that a failed send ends
GoesOnIfSent(sent) == sent

\* lines 437-440: RPCError and Exception are caught inside the loop body, so
\* the loop goes on to the next target whether or not the send succeeded
SendGoesOn(sent) == TRUE

\* _send_to_targets, one target (lines 419-442): a failed send is logged
\* and the next target follows
RunSend(r, sent) ==
    /\ BagIn(r, sch_runs)
    /\ r.pc = "send"
    /\ sch_runs' = IF r.k >= Len(SchedTargets[r.id]) \/ ~SendGoesOn(sent)
                   THEN RunEnds(r)
                   ELSE RunMoves(r, SendTo(r, r.k + 1, r.text))
    /\ UNCHANGED <<sch_tasks, sch_saved, sch_sync, st_enabled, sch_ops, sch_hold>>
    /\ UNCHANGED <<tvars, dvars, fvars, pvars, hvars, avars>>

\* _sync_state_enabled (lines 444-450) with StateStore.set_task_enabled
\* (state.py 155-161): the oldest synchronisation spawned runs; a task the
\* state file does not hold is left alone
SyncStateEnabled ==
    /\ Len(sch_sync) > 0
    /\ LET s == Head(sch_sync)
       IN  st_enabled' = IF s.id \in DOMAIN st_enabled
                         THEN [st_enabled EXCEPT ![s.id] = s.enabled]
                         ELSE st_enabled
    /\ sch_sync' = Tail(sch_sync)
    /\ UNCHANGED <<sch_tasks, sch_saved, sch_runs, sch_ops, sch_hold>>
    /\ UNCHANGED <<tvars, dvars, fvars, pvars, hvars, avars>>

\* cfg.get(key) on an entry of the state document: None when the key is
\* absent, else its value
DocGet(v) == IF IsNone(v) THEN TimeNone ELSE Val(v)

\* lines 300-319: the next_run of a task after the reload: the present time
\* for an enabled task inside its window and for a task without a usable
\* start_time, else the next opening of the window
ReloadNextRun(task, now) ==
    LET st == task.start_time
        candidate == now - ShanghaiSeconds(now) + TimeMinutes(st) * SecondsPerMinute
    IN  IF TaskInWindow(task, now) /\ task.enabled THEN now
        ELSE IF ~TimeTruthy(st) \/ TimeRaises(st) THEN now
        ELSE IF st.h \notin 0..(HoursPerDay - 1) \/ st.m \notin 0..(MinutesPerHour - 1)
             THEN now
        ELSE IF candidate <= now THEN candidate + SecondsPerDay
        ELSE candidate

\* lines 292-319: a task of the scheduler after the reload from its entry
\* of the state document
SyncTask(task, entry, enabled, now) ==
    LET t1 == [task EXCEPT !.start_time = DocGet(entry.start_time),
                           !.end_time = DocGet(entry.end_time),
                           !.enabled = enabled]
    IN  [t1 EXCEPT !.next_run = ReloadNextRun(t1, now)]

\* _sync_tasks_from_state (lines 278-329), which the state watcher calls
\* when state.json has changed: the tasks the document holds are updated
\* and, when there is one, the configuration is saved
SyncTasksFromState ==
    /\ DOMAIN st_enabled # {}
    /\ sch_tasks' = [id \in DOMAIN sch_tasks |->
                       IF id \in DOMAIN st_enabled
                       THEN SyncTask(sch_tasks[id], st_doc[id], st_enabled[id], clock)
                       ELSE sch_tasks[id]]
    /\ sch_saved' = IF DOMAIN sch_tasks \cap DOMAIN st_enabled # {}
                    THEN Saved(sch_tasks')
                    ELSE sch_saved
    /\ UNCHANGED <<sch_runs, sch_sync, st_enabled, sch_ops, sch_hold>>
    /\ UNCHANGED <<tvars, dvars, fvars, pvars, hvars, avars>>

\* an entry of the "tasks" list of the configuration: id, name, client and
\* ca are present or not (None: absent, null or empty), interval_minutes
\* is absent, a number or something int() refuses
CfgEntries ==
    [id : {None, Some("a")}, name : {None, Some("n")},
     client : {None, Some("c")}, ca : {None, Some("0xA")},
     interval : {"absent", "int", "bad"}]

\* t.get("id") or t.get("name"), line 41
LoadedId(entry) == IF ~IsNone(entry.id) THEN entry.id ELSE entry.name

\* line 53: not task["id"] or not task["client"] or not task["ca"]
SkipsEntry(entry) ==
    IsNone(LoadedId(entry)) \/ IsNone(entry.client) \/ IsNone(entry.ca)

\* load_tasks (lines 36-67) on the entries from position i on: the tasks
\* loaded, each with the position of its entry, or a failure when int()
\* raises on interval_minutes, which happens while the task is built and
\* before it is checked
RECURSIVE LoadFrom(_, _)
LoadFrom(cfg, i) ==
    IF i > Len(cfg) THEN [failed |-> FALSE, tasks |-> <<>>]
    ELSE IF cfg[i].interval = "bad" THEN [failed |-> TRUE, tasks |-> <<>>]
    ELSE LET rest == LoadFrom(cfg, i + 1)
             task == [id |-> LoadedId(cfg[i]), client |-> cfg[i].client,
                      ca |-> cfg[i].ca, entry |-> i]
         IN  IF rest.failed THEN rest
             ELSE IF SkipsEntry(cfg[i]) THEN rest
             ELSE [failed |-> FALSE, tasks |-> <<task>> \o rest.tasks]

\* scheduler.load_tasks(client_pool.tasks_config()), main.py 482
LoadTasks ==
    /\ ~ld.done
    /\ ld' = [ld EXCEPT !.done = TRUE, !.out = LoadFrom(ld.cfg, 1)]
    /\ UNCHANGED <<sch_loop, sch_ret, st_doc>>
    /\ UNCHANGED <<tvars, dvars, fvars, pvars, hvars, kvars>>

\* no call of load_tasks on a configuration under study
InitLoadIdle ==
    ld = [cfg |-> <<>>, done |-> FALSE, out |-> [failed |-> FALSE, tasks |-> <<>>]]

\* load_tasks before its call, on any configuration of a few entries
InitLoad ==
    \E n \in 0..MaxEntries : \E cfg \in [1..n -> CfgEntries] :
        ld = [cfg |-> cfg, done |-> FALSE,
              out |-> [failed |-> FALSE, tasks |-> <<>>]]

\* the loop as start() spawns it (lines 70-74)
InitLoop ==
    /\ sch_loop = [alive |-> TRUE, logged |-> FALSE]
    /\ sch_ret = None

\* no scheduler, for the specifications that do not use it
InitSchedIdle ==
    /\ InitLoop
    /\ InitLoadIdle
    /\ st_doc = <<>>
    /\ sch_tasks = <<>>
    /\ sch_saved = <<>>
    /\ sch_runs = EmptyBag
    /\ sch_sync = <<>>
    /\ st_enabled = <<>>
    /\ sch_ops = 0
    /\ sch_hold = <<>>

\* load_tasks (lines 36-67) at the start: every task is due at once, and a
\* task that is configured enabled outside its window is disabled
LoadTask(cfg, now) ==
    LET t == [enabled |-> cfg.enabled, next_run |-> now,
              start_time |-> cfg.start_time, end_time |-> cfg.end_time]
    IN  IF HasWindow(t) /\ t.enabled /\ ~TaskInWindow(t, now)
        THEN [t EXCEPT !.enabled = FALSE]
        ELSE t

\* the scheduler after load_tasks on a configuration in which s1 has a
\* window and s2 has none
InitSched ==
    \E w \in SchedWindows, e1 \in BOOLEAN, e2 \in BOOLEAN :
        LET cfg == [t \in SchedIds |->
                      IF t = "s1" THEN [enabled |-> e1] @@ w
                      ELSE [enabled |-> e2] @@ NoWindow]
        IN  /\ sch_tasks = [t \in SchedIds |-> LoadTask(cfg[t], clock)]
            /\ sch_saved = [t \in SchedIds |->
                              [enabled |-> cfg[t].enabled, next_run |-> None]]
            /\ st_enabled = [t \in StateSchedIds |-> cfg[t].enabled]
            /\ st_doc = [t \in StateSchedIds |->
                           [start_time |-> Some(cfg[t].start_time),
                            end_time |-> Some(cfg[t].end_time)]]
            /\ sch_runs = EmptyBag
            /\ sch_sync = <<>>
            /\ sch_ops = 0
            /\ sch_hold = [t \in SchedIds |-> NoHold]
            /\ InitLoop
            /\ InitLoadIdle

(***************************************************************************)
(* Initial states and specifications.                                      *)
(***************************************************************************)
NoResult == [fn |-> "none", out |-> Outcome(<<>>)]

\* the evaluator at rest, for the specifications that do not call it
InitFilterIdle ==
    /\ fmetrics = FullMetrics
    /\ fcfg = DefaultConfig
    /\ utcnow = EvalTime
    /\ fres = NoResult

\* the evaluator before a call, on any of the inputs
InitFilter ==
    /\ fmetrics \in MetricsSet
    /\ fcfg \in Configs
    /\ utcnow = EvalTime
    /\ fres = NoResult

InitClock ==
    /\ clock = StartTime
    /\ ticks = 0

InitDedupe ==
    /\ memory = <<>>
    /\ last_cleanup = 0
    /\ cpc = [c \in Callers |-> "idle"]
    /\ ckey = [c \in Callers |-> "k1"]
    /\ cttl = [c \in Callers |-> Some(1)]
    /\ cnow = [c \in Callers |-> 0]
    /\ cret = [c \in Callers |-> "none"]

\* no call of check_range
InitRangeIdle == rc = [value |-> None, r |-> Unset, res |-> NoCheck]

\* check_range before a call, on any of the inputs
InitRange ==
    \E v \in RangeValues, r \in RangeRanges :
        rc = [value |-> v, r |-> r, res |-> NoCheck]

\* no call of the time-window gate
InitWindowIdle ==
    win = [start_time |-> TimeNone, end_time |-> TimeNone,
           now |-> [hour |-> 0, minute |-> 0], res |-> NoGate]

\* the gate before a call, on any window at any time of day
InitWindow ==
    \E st \in TimeStrings, en \in TimeStrings, now \in TimesOfDay :
        win = [start_time |-> st, end_time |-> en, now |-> now, res |-> NoGate]

DedupeInit ==
    /\ InitClock /\ InitDedupe /\ InitFilterIdle /\ InitStateEmpty /\ InitPcaIdle
    /\ InitRangeIdle /\ InitWindowIdle /\ InitSchedIdle

DedupeNext ==
    \/ \E c \in Callers, k \in Keys, t \in TTLs : Call(c, k, t)
    \/ \E c \in Callers : Body(c)
    \/ \E d \in Jumps : Tick(d)

SpecDedupe == DedupeInit /\ [][DedupeNext]_vars

FilterInit ==
    /\ InitClock /\ InitDedupe /\ InitFilter /\ InitStateEmpty /\ InitPcaIdle
    /\ InitRangeIdle /\ InitWindowIdle /\ InitSchedIdle

FilterNext ==
    \/ EvalBasic
    \/ EvalRisk
    \/ EvalAll

SpecFilter == FilterInit /\ [][FilterNext]_vars

PcaInit ==
    /\ InitClock /\ InitDedupe /\ InitFilterIdle /\ InitState /\ InitPcaIdle
    /\ InitRangeIdle /\ InitWindowIdle /\ InitSchedIdle

\* process_ca is called for a CA found in a watched chat (bot.py:1745, one
\* call per matching task), by the /c command for the current task
\* (bot.py:159) and by the scheduler for a scheduled task
\* (task_scheduler.py:405)
PcaNext ==
    \/ \E p \in Invocations, ca \in CAs, t \in TaskIds :
            PcaStart(p, ChainHint(ca), ca, FALSE, Some(t))
    \/ \E p \in Invocations, ca \in CAs :
            PcaStart(p, ChainHint(ca), ca, TRUE, st_current)
    \/ \E p \in Invocations, ca \in CAs, t \in TaskIds :
            PcaStart(p, ChainHint(ca), ca, TRUE, Some(t))
    \/ \E p \in Invocations, err \in FetchErrors : PcaFetchFail(p, err)
    \/ \E p \in Invocations, m \in FetchedMetrics, rendered \in BOOLEAN :
            PcaFetchOk(p, m, rendered)
    \/ \E p \in Invocations, tok \in TokenScores, rendered \in BOOLEAN :
         \E sol \in SolScores(pin[p].chain) : PcaRisk(p, sol, tok, rendered)
    \/ \E p \in Invocations, delivered \in BOOLEAN : PcaPush(p, delivered)

SpecPCA == PcaInit /\ [][PcaNext]_vars

\* process_ca as its two kinds of callers drive it: the handler of a watched
\* chat, once per matching task and not forced (bot.py:1745), and the /c
\* command, forced and for the current task (bot.py:159)
StepsNext ==
    \/ \E p \in Invocations, ca \in CAs, t \in TaskIds :
            PcaStart(p, ChainHint(ca), ca, FALSE, Some(t))
    \/ \E p \in Invocations, ca \in CAs :
            PcaStart(p, ChainHint(ca), ca, TRUE, st_current)
    \/ \E p \in Invocations, err \in FetchErrors : PcaFetchFail(p, err)
    \/ \E p \in Invocations, m \in FetchedMetrics, rendered \in BOOLEAN :
            PcaFetchOk(p, m, rendered)
    \/ \E p \in Invocations, tok \in TokenScores, rendered \in BOOLEAN :
         \E sol \in SolScores(pin[p].chain) : PcaRisk(p, sol, tok, rendered)
    \/ \E p \in Invocations, delivered \in BOOLEAN : PcaPush(p, delivered)

SpecSteps == PcaInit /\ [][StepsNext]_vars

\* the two loops over targets side by side: the tasks of the scheduler are
\* loaded, the state file holds the tasks of the watched chats
SendInit ==
    /\ InitClock /\ InitDedupe /\ InitFilterIdle /\ InitState /\ InitPcaIdle
    /\ InitRangeIdle /\ InitWindowIdle /\ InitSched

\* the executions of the scheduler from the first iteration of its loop, and
\* the automatic invocations of process_ca for the base58 address
SendNext ==
    \/ RunLoop
    \/ \E r \in RunStates : RunStart(r, TRUE)
    \/ \E r \in RunStates, outcome \in ReturnedOutcomes : RunPca(r, outcome)
    \/ \E r \in RunStates, sent \in BOOLEAN : RunSend(r, sent)
    \/ \E p \in Invocations, ca \in {c \in CAs : ~c.hex}, t \in TaskIds :
            PcaStart(p, ChainHint(ca), ca, FALSE, Some(t))
    \/ \E p \in Invocations, m \in FetchedMetrics : PcaFetchOk(p, m, TRUE)
    \/ \E p \in Invocations, tok \in TokenScores :
         \E sol \in SolScores(pin[p].chain) : PcaRisk(p, sol, tok, TRUE)
    \/ \E p \in Invocations, delivered \in BOOLEAN : PcaPush(p, delivered)

SpecSend == SendInit /\ [][SendNext]_vars

\* the admin sets filters (bot.py:571) on the state file of the two tasks
StoreInit == PcaInit

StoreNext ==
    \E name \in StoreNames, min_val \in StoreBounds, max_val \in StoreBounds,
       task_id \in StoreTaskArgs : SetFilter(name, min_val, max_val, task_id)

SpecStore == StoreInit /\ [][StoreNext]_vars

RangeInit ==
    /\ InitClock /\ InitDedupe /\ InitFilterIdle /\ InitStateEmpty /\ InitPcaIdle
    /\ InitRange /\ InitWindowIdle /\ InitSchedIdle

RangeNext == EvalRange

SpecRange == RangeInit /\ [][RangeNext]_vars

WindowInit ==
    /\ InitClock /\ InitDedupe /\ InitFilterIdle /\ InitStateEmpty /\ InitPcaIdle
    /\ InitRangeIdle /\ InitWindow /\ InitSchedIdle

WindowNext ==
    \/ SchedulerGate
    \/ BotGate

SpecWindow == WindowInit /\ [][WindowNext]_vars

SchedInit ==
    /\ InitClock /\ InitDedupe /\ InitFilterIdle /\ InitStateEmpty /\ InitPcaIdle
    /\ InitRangeIdle /\ InitWindowIdle /\ InitSched

\* the loop, the executions in which process_ca returns a caption, and the
\* pause and resume commands; the executions in which process_ca returns an
\* error or nothing, or raises, differ in what is sent only and are left to
\* SpecExec
SchedNext ==
    \/ RunLoop
    \/ \E id \in SchedIds : Pause(id)
    \/ \E id \in SchedIds : Resume(id)
    \/ \E r \in RunStates, has_client \in BOOLEAN : RunStart(r, has_client)
    \/ \E r \in RunStates : RunPca(r, "ok")
    \/ \E r \in RunStates, sent \in BOOLEAN : RunSend(r, sent)
    \/ SyncStateEnabled
    \/ \E d \in SchedJumps : Tick(d)

SpecSched == SchedInit /\ [][SchedNext]_vars

\* the loop and the executions, with every outcome of process_ca, while
\* the operator gives no command
ExecNext ==
    \/ RunLoop
    \/ \E r \in RunStates, has_client \in BOOLEAN : RunStart(r, has_client)
    \/ \E r \in RunStates, outcome \in PcaOutcomes : RunPca(r, outcome)
    \/ \E r \in RunStates, sent \in BOOLEAN : RunSend(r, sent)
    \/ SyncStateEnabled
    \/ \E d \in SchedJumps : Tick(d)

SpecExec == SchedInit /\ [][ExecNext]_vars

\* the scheduler after load_tasks on a configuration that holds s1 alone
\* or s1 and s2
InitAdmin ==
    \E loaded \in {{"s1"}, SchedIds}, w \in SchedWindows, e1 \in BOOLEAN :
        LET cfg == [t \in loaded |->
                      IF t = "s1" THEN [enabled |-> e1] @@ w
                      ELSE [enabled |-> TRUE] @@ NoWindow]
        IN  /\ sch_tasks = [t \in loaded |-> LoadTask(cfg[t], clock)]
            /\ sch_saved = [t \in loaded |->
                              [enabled |-> cfg[t].enabled, next_run |-> None]]
            /\ st_enabled = [t \in StateSchedIds |-> cfg[t].enabled]
            /\ st_doc = [t \in StateSchedIds |->
                           [start_time |-> Some(cfg[t].start_time),
                            end_time |-> Some(cfg[t].end_time)]]
            /\ sch_runs = EmptyBag
            /\ sch_sync = <<>>
            /\ sch_ops = 0
            /\ sch_hold = [t \in SchedIds |-> NoHold]
            /\ InitLoop
            /\ InitLoadIdle

AdminInit ==
    /\ InitClock /\ InitDedupe /\ InitFilterIdle /\ InitStateEmpty /\ InitPcaIdle
    /\ InitRangeIdle /\ InitWindowIdle /\ InitAdmin

\* the commands of the operator on a scheduler whose loop runs, within one
\* minute of the clock
AdminNext ==
    \/ \E id \in SchedIds : AddTask(id)
    \/ \E id \in SchedIds : Pause(id)
    \/ \E id \in SchedIds : Resume(id)
    \/ \E id \in SchedIds : TaskDisable(id)
    \/ \E id \in SchedIds : TaskDelete(id)
    \/ RunLoop
    \/ \E r \in RunStates, has_client \in BOOLEAN : RunStart(r, has_client)
    \/ \E r \in RunStates, outcome \in ReturnedOutcomes : RunPca(r, outcome)
    \/ \E r \in RunStates, sent \in BOOLEAN : RunSend(r, sent)
    \/ SyncStateEnabled

SpecAdmin == AdminInit /\ [][AdminNext]_vars

\* what the start_time and the end_time key of an entry of the state
\* document can be: absent, null, or a time
DocStarts == {None, Some(TimeNone), Some(TimeHM(8, 20)), Some(TimeHM(HoursPerDay, 0))}
DocEnds == {None, Some(TimeNone), Some(TimeHM(8, 25))}

\* the scheduler after load_tasks, and a state document that holds s1 with
\* any enabled flag and any window keys
InitReload ==
    \E w \in SchedWindows, e1 \in BOOLEAN, e2 \in BOOLEAN, se \in BOOLEAN,
       ds \in DocStarts, de \in DocEnds :
        LET cfg == [t \in SchedIds |->
                      IF t = "s1" THEN [enabled |-> e1] @@ w
                      ELSE [enabled |-> e2] @@ NoWindow]
        IN  /\ sch_tasks = [t \in SchedIds |-> LoadTask(cfg[t], clock)]
            /\ sch_saved = [t \in SchedIds |->
                              [enabled |-> cfg[t].enabled, next_run |-> None]]
            /\ st_enabled = [t \in StateSchedIds |-> se]
            /\ st_doc = [t \in StateSchedIds |-> [start_time |-> ds, end_time |-> de]]
            /\ sch_runs = EmptyBag
            /\ sch_sync = <<>>
            /\ sch_ops = 0
            /\ sch_hold = [t \in SchedIds |-> NoHold]
            /\ InitLoop
            /\ InitLoadIdle

ReloadInit ==
    /\ InitClock /\ InitDedupe /\ InitFilterIdle /\ InitStateEmpty /\ InitPcaIdle
    /\ InitRangeIdle /\ InitWindowIdle /\ InitReload

\* the reload, at any time
ReloadNext ==
    \/ SyncTasksFromState
    \/ \E d \in SchedJumps : Tick(d)

SpecReload == ReloadInit /\ [][ReloadNext]_vars

\* the loop and the state watcher side by side (start, lines 69-79): the
\* loop with its executions and state synchronisations, and the reload,
\* which the watcher runs whenever state.json was written, by a
\* synchronisation of the scheduler or by any setter of the StateStore
WatchNext ==
    \/ RunLoop
    \/ \E r \in RunStates, has_client \in BOOLEAN : RunStart(r, has_client)
    \/ \E r \in RunStates : RunPca(r, "ok")
    \/ \E r \in RunStates, sent \in BOOLEAN : RunSend(r, sent)
    \/ SyncStateEnabled
    \/ SyncTasksFromState
    \/ \E d \in SchedJumps : Tick(d)

SpecWatch == SchedInit /\ [][WatchNext]_vars

LoadInit ==
    /\ InitClock /\ InitDedupe /\ InitFilterIdle /\ InitStateEmpty /\ InitPcaIdle
    /\ InitRangeIdle /\ InitWindowIdle
    /\ sch_tasks = <<>> /\ sch_saved = <<>> /\ sch_runs = EmptyBag
    /\ sch_sync = <<>> /\ st_enabled = <<>> /\ sch_ops = 0 /\ sch_hold = <<>>
    /\ st_doc = <<>>
    /\ InitLoop /\ InitLoad

LoadNext == LoadTasks

SpecLoad == LoadInit /\ [][LoadNext]_vars

(***************************************************************************)
(* Claims about DedupeStore.seen, checked under SpecDedupe.                *)
(***************************************************************************)
Done(c) == cpc[c] = "done"
GoodCall(c) == Done(c) /\ ~IsNone(cttl[c])
\* the step in which call c runs the body of seen
Runs(c) == cpc[c] = "wait" /\ cpc'[c] = "done"
\* the key is recorded and not expired in the store as it stands
Live(k) == k \in DOMAIN memory /\ memory[k] > clock

\* C1: seen is a check-and-set with expiry. A call with a key that is not
\* recorded returns false and records now + ttl; a call made while the
\* recorded expiry is greater than now returns true; a call made once the
\* expiry has passed (expiry <= now) returns false and records a new expiry.
C1_CheckAndSetStep ==
    \A c \in Callers :
        (Runs(c) /\ ~IsNone(cttl[c])) =>
            LET k == ckey[c]
            IN  /\ Live(k) => cret'[c] = "true"
                /\ ~Live(k) =>
                      /\ cret'[c] = "false"
                      /\ k \in DOMAIN memory'
                      /\ memory'[k] = clock + Val(cttl[c])

C1_CheckAndSet == [][C1_CheckAndSetStep]_vars

\* three calls with one key: false, then true before the expiry, then false
\* again at the expiry, with the new expiry recorded
C1_Witness ==
    \E a, b, c \in Callers :
        /\ GoodCall(a) /\ GoodCall(b) /\ GoodCall(c)
        /\ ckey[a] = ckey[b] /\ ckey[b] = ckey[c]
        /\ cret[a] = "false" /\ cret[b] = "true" /\ cret[c] = "false"
        /\ cnow[a] <= cnow[b] /\ cnow[b] < cnow[a] + Val(cttl[a])
        /\ cnow[c] >= cnow[a] + Val(cttl[a])
        /\ ckey[c] \in DOMAIN memory
        /\ memory[ckey[c]] = cnow[c] + Val(cttl[c])

\* the calls made so far with key k
CallsOn(k) == {c \in Callers : Done(c) /\ ckey[c] = k}
\* all of them read the clock before the expiry any of them records
Concurrent(D) ==
    /\ \A c \in D : ~IsNone(cttl[c])
    /\ \A c1, c2 \in D : cnow[c2] < cnow[c1] + Val(cttl[c1])

\* C2: when the calls made with a key that was not recorded are concurrent
\* (each reads the clock before the expiry recorded by the one that wins),
\* exactly one of them returned false and all the others returned true, in
\* whatever order the event loop ran them.
C2_ExactlyOneFalse ==
    \A k \in Keys :
        LET D == CallsOn(k)
        IN  (D # {} /\ Concurrent(D)) =>
                /\ Cardinality({c \in D : cret[c] = "false"}) = 1
                /\ \A c \in D : cret[c] \in {"true", "false"}

\* every caller called with the same key at the same instant: one false
C2_Witness ==
    /\ \A c \in Callers : GoodCall(c) /\ ckey[c] = "k1" /\ cnow[c] = clock
    /\ Cardinality({c \in Callers : cret[c] = "false"}) = 1
    /\ Cardinality({c \in Callers : cret[c] = "true"}) = NumCallers - 1

\* C3: a call that returns true leaves the entry of its key as it was: same
\* key, same expiry.
C3_HitStep ==
    \A c \in Callers :
        (Runs(c) /\ cret'[c] = "true") =>
            /\ ckey[c] \in DOMAIN memory
            /\ ckey[c] \in DOMAIN memory'
            /\ memory'[ckey[c]] = memory[ckey[c]]

C3_HitChangesNothing == [][C3_HitStep]_vars

\* a hit with a ttl that would have moved the expiry, and the expiry is
\* still the one recorded by the first call
C3_Witness ==
    \E a, b \in Callers :
        /\ GoodCall(a) /\ GoodCall(b) /\ ckey[a] = ckey[b]
        /\ cret[a] = "false" /\ cret[b] = "true"
        /\ cnow[b] + Val(cttl[b]) # cnow[a] + Val(cttl[a])
        /\ ckey[a] \in DOMAIN memory
        /\ memory[ckey[a]] = cnow[a] + Val(cttl[a])

\* C4: the sweep never removes an entry whose expiry is greater than now: a
\* key recorded less than ttl seconds ago is in the store, and a call of seen
\* made now, sweep included, reports it as seen.
C4_SweepKeepsValid ==
    \A c \in Callers :
        (GoodCall(c) /\ cret[c] = "false" /\ clock < cnow[c] + Val(cttl[c])) =>
            /\ Live(ckey[c])
            /\ SeenBody(memory, ckey[c], cttl[c], clock, last_cleanup)[1] = "true"

\* a sweep ran after the key was recorded, and the key is still valid
C4_Witness ==
    \E c \in Callers :
        /\ GoodCall(c) /\ cret[c] = "false"
        /\ clock < cnow[c] + Val(cttl[c])
        /\ last_cleanup > cnow[c]

\* C5: seen never raises. A call whose body fails (a ttl that cannot be
\* added to now, with a key that is not currently seen) returns false.
C5_FailsOpen ==
    \A c \in Callers :
        Done(c) =>
            /\ cret[c] \in {"true", "false"}
            /\ (IsNone(cttl[c]) /\ \A a \in CallsOn(ckey[c]) : IsNone(cttl[a]))
                  => cret[c] = "false"

\* a call with a ttl of None ran into the TypeError and returned false
C5_Witness ==
    \E c \in Callers :
        /\ Done(c) /\ IsNone(cttl[c]) /\ cret[c] = "false"
        /\ ckey[c] \notin DOMAIN memory

(***************************************************************************)
(* Claims about the filter evaluator, checked under SpecFilter.            *)
(***************************************************************************)
\* a number lies outside a range: below a set minimum or above a set maximum
OutOfRange(v, r) ==
    \/ ~IsNone(r.min) /\ v < Val(r.min)
    \/ ~IsNone(r.max) /\ v > Val(r.max)

\* the names of the fields a list of reasons speaks of, in order
FieldsOf(reasons) == [i \in 1..Len(reasons) |-> reasons[i].field]

RiskNames == {"sol_sniffer_score", "token_sniffer_score"}

C9_NullRiskScorePasses ==
    ( /\ fres.fn = "all"
      /\ IsNone(fmetrics.sol_sniffer_score)
      /\ ~IsNone(fcfg.sol_sniffer_score.min)
      /\ ~IsSet(fcfg.token_sniffer_score)
      /\ ApplyBasicFilters(fmetrics, fcfg, utcnow).passed )
    => (fres.out.passed /\ fres.out.reasons = <<>>)

\* the basic fields in the order of the checks, and the metric each reads
BasicOrder ==
    <<"market_cap_usd", "liquidity_usd", "top10_ratio", "holder_count",
      "max_holder_ratio", "trades_5m", "open_minutes">>

MetricOf(name) ==
    CASE name = "market_cap_usd" -> "market_cap"
      [] name = "holder_count" -> "holders"
      [] OTHER -> name

\* the range check of a basic field fails
FailsBasic(name) ==
    IF name = "open_minutes"
    THEN /\ IsSet(fcfg.open_minutes)
         /\ \/ IsNone(fmetrics.first_trade_at) /\ IsNone(fmetrics.pool_created_at)
            \/ /\ ~IsNone(fmetrics.first_trade_at)
               /\ OutOfRange(utcnow - Val(fmetrics.first_trade_at), fcfg.open_minutes)
            \/ /\ IsNone(fmetrics.first_trade_at)
               /\ ~IsNone(fmetrics.pool_created_at)
               /\ OutOfRange(utcnow - Val(fmetrics.pool_created_at), fcfg.open_minutes)
    ELSE /\ IsSet(fcfg[name])
         /\ \/ IsNone(fmetrics[MetricOf(name)])
            \/ OutOfRange(Val(fmetrics[MetricOf(name)]), fcfg[name])

\* C10: apply_basic_filters does not short-circuit: the reasons hold exactly
\* one entry for each basic field whose check fails, in the fixed order of
\* the fields, and passed is true iff there is no reason.
C10_AllBasicReasons ==
    fres.fn = "basic" =>
        /\ FieldsOf(fres.out.reasons) = SelectSeq(BasicOrder, FailsBasic)
        /\ fres.out.passed <=> fres.out.reasons = <<>>

\* two basic fields fail, the later one being the age of the pool
C10_Witness ==
    /\ fres.fn = "basic"
    /\ ~fres.out.passed
    /\ Len(fres.out.reasons) = 2
    /\ fres.out.reasons[2].field = "open_minutes"

\* the reasons of the result that speak of the age of the pool
AgeReasons == SelectSeq(fres.out.reasons, LAMBDA r : r.field = "open_minutes")

\* the one reason the age check gives for a pool that is `minutes` old, or none
AgeVerdict(minutes) ==
    IF ~IsNone(fcfg.open_minutes.min) /\ minutes < Val(fcfg.open_minutes.min)
    THEN <<Reason("open_minutes", Msg("<", fcfg.open_minutes.min))>>
    ELSE IF ~IsNone(fcfg.open_minutes.max) /\ minutes > Val(fcfg.open_minutes.max)
    THEN <<Reason("open_minutes", Msg(">", fcfg.open_minutes.max))>>
    ELSE <<>>

\* C11: in apply_filters and apply_basic_filters, an unset open_minutes range
\* gives no age reason; a set one judges the minutes since first_trade_at
\* when that is present, the minutes since pool_created_at when only that is
\* present, and fails with the reason "open_minutes missing" when both are
\* absent.
C11_OpenMinutes ==
    fres.fn \in {"basic", "all"} =>
        IF ~IsSet(fcfg.open_minutes) THEN AgeReasons = <<>>
        ELSE IF ~IsNone(fmetrics.first_trade_at)
        THEN AgeReasons = AgeVerdict(utcnow - Val(fmetrics.first_trade_at))
        ELSE IF ~IsNone(fmetrics.pool_created_at)
        THEN AgeReasons = AgeVerdict(utcnow - Val(fmetrics.pool_created_at))
        ELSE /\ AgeReasons = <<Reason("open_minutes", Msg("missing", None))>>
             /\ ~fres.out.passed

\* both times are present, the age since the first trade is in the range and
\* the age since the creation of the pool is not: the evaluation passes
C11_Witness ==
    /\ fres.fn = "basic"
    /\ IsSet(fcfg.open_minutes)
    /\ ~IsNone(fmetrics.first_trade_at) /\ ~IsNone(fmetrics.pool_created_at)
    /\ OutOfRange(utcnow - Val(fmetrics.pool_created_at), fcfg.open_minutes)
    /\ ~OutOfRange(utcnow - Val(fmetrics.first_trade_at), fcfg.open_minutes)
    /\ fres.out.passed

(***************************************************************************)
(* Claims about check_range, checked under SpecRange.                      *)
(***************************************************************************)
\* C12: check_range on a range with both bounds None passes with the reason
\* None, for every value and for the value None.
C12_UnsetRangePasses ==
    (rc.res.called /\ IsNone(rc.r.min) /\ IsNone(rc.r.max)) =>
        (rc.res.ok /\ rc.res.msg = NoMsg)

\* the value None was checked against the unset range
C12_Witness ==
    /\ rc.res.called
    /\ IsNone(rc.r.min) /\ IsNone(rc.r.max)
    /\ IsNone(rc.value)
    /\ rc.res.ok

\* C13: check_range on a range with a bound and the value None returns
\* (False, "missing"): the failure is a returned value, nothing is raised.
C13_MissingValueFails ==
    (rc.res.called /\ (~IsNone(rc.r.min) \/ ~IsNone(rc.r.max)) /\ IsNone(rc.value)) =>
        (~rc.res.ok /\ rc.res.msg = Msg("missing", None))

\* the value None was checked against a range that has only a maximum
C13_Witness ==
    /\ rc.res.called
    /\ IsNone(rc.r.min) /\ ~IsNone(rc.r.max)
    /\ IsNone(rc.value)
    /\ rc.res.msg.op = "missing"

\* C14: check_range on a value that is not None fails with "< {min}" iff min
\* is set and value < min, otherwise fails with "> {max}" iff max is set and
\* value > max, otherwise passes; value = min and value = max pass.
C14_BoundsInclusive ==
    (rc.res.called /\ ~IsNone(rc.value)) =>
        LET v == Val(rc.value)
            below == ~IsNone(rc.r.min) /\ v < Val(rc.r.min)
            above == ~IsNone(rc.r.max) /\ v > Val(rc.r.max)
        IN  /\ (rc.res.msg = Msg("<", rc.r.min) /\ ~rc.res.ok) <=> below
            /\ (rc.res.msg = Msg(">", rc.r.max) /\ ~rc.res.ok) <=> (~below /\ above)
            /\ (rc.res.ok /\ rc.res.msg = NoMsg) <=> (~below /\ ~above)
            /\ (Some(v) = rc.r.min /\ ~above) => rc.res.ok
            /\ (Some(v) = rc.r.max /\ ~below) => rc.res.ok

\* a value on the minimum of a range whose maximum is larger passes
C14_Witness ==
    /\ rc.res.called
    /\ ~IsNone(rc.value) /\ ~IsNone(rc.r.max)
    /\ rc.r.min = rc.value
    /\ Val(rc.r.max) > Val(rc.value)
    /\ rc.res.ok

(***************************************************************************)
(* Claims about the time-window gate, checked under SpecWindow.            *)
(***************************************************************************)
\* a string that is a time of day HH:MM
IsTimeOfDay(t) ==
    /\ t.kind = "hm"
    /\ t.h \in 0..(HoursPerDay - 1)
    /\ t.m \in 0..(MinutesPerHour - 1)

\* the minute of the day of `now` and of the two ends of the window
NowMin == win.now.hour * MinutesPerHour + win.now.minute
StartMin == win.start_time.h * MinutesPerHour + win.start_time.m
EndMin == win.end_time.h * MinutesPerHour + win.end_time.m

\* C15: the gate (the scheduler's and the bot's) returns true at every time
\* of day when start and end are both None; with only start set it returns
\* true iff now_minutes >= start_minutes, with only end set iff
\* now_minutes <= end_minutes.
C15_OpenEndedWindow ==
    win.res.fn # "none" =>
        /\ (win.start_time = TimeNone /\ win.end_time = TimeNone) => win.res.val
        /\ (IsTimeOfDay(win.start_time) /\ win.end_time = TimeNone) =>
               (win.res.val <=> NowMin >= StartMin)
        /\ (win.start_time = TimeNone /\ IsTimeOfDay(win.end_time)) =>
               (win.res.val <=> NowMin <= EndMin)

\* only start is set, to 09:30, and the gate is asked at 09:30
C15_Witness ==
    /\ win.res.fn = "scheduler"
    /\ win.start_time = TimeHM(9, 30) /\ win.end_time = TimeNone
    /\ win.now = [hour |-> 9, minute |-> 30]
    /\ win.res.val

\* C16: with start and end both set, the gate returns true iff
\* start_minutes <= now_minutes <= end_minutes when start <= end, and iff
\* now_minutes >= start_minutes or now_minutes <= end_minutes when
\* start > end, at every minute of the day.
C16_ClosedWindow ==
    (win.res.fn # "none" /\ IsTimeOfDay(win.start_time) /\ IsTimeOfDay(win.end_time)) =>
        IF StartMin <= EndMin
        THEN win.res.val <=> (StartMin <= NowMin /\ NowMin <= EndMin)
        ELSE win.res.val <=> (NowMin >= StartMin \/ NowMin <= EndMin)

\* the window 23:59 ~ 09:00 wraps past midnight and 00:00 is inside it
C16_Witness ==
    /\ win.res.fn = "bot"
    /\ win.start_time = TimeHM(23, 59) /\ win.end_time = TimeHM(9, 0)
    /\ win.now = [hour |-> 0, minute |-> 0]
    /\ win.res.val

\* a string that is set and is not a time of day HH:MM
Malformed(t) == TimeTruthy(t) /\ ~IsTimeOfDay(t)

\* C17: a start or an end that is not a valid HH:MM time (not parseable, hour
\* outside 0-23 or minute outside 0-59) makes the gate return true at every
\* time of day.
C17_MalformedWindowIsOpen ==
    (win.res.fn # "none" /\ (Malformed(win.start_time) \/ Malformed(win.end_time))) =>
        win.res.val

(***************************************************************************)
(* process_ca: the dedupe key and the two phases of the filters.           *)
(***************************************************************************)
\* the invocations that went through the dedupe check
Checked == {p \in Invocations : ppc[p] # "idle" /\ ~pin[p].force_push}

\* the checked invocations for the task, chain and address of p that were
\* not skipped
ProcessedLike(p) ==
    {q \in Checked : /\ pin[q].task = pin[p].task
                     /\ pin[q].chain = pin[p].chain
                     /\ pin[q].ca = pin[p].ca
                     /\ pout[q].ret # "skipped"}

\* C6: of the automatic invocations for one task, chain and address exactly
\* one is processed and the others are skipped, whatever the other tasks
\* did with the same address: an invocation is skipped only when one for
\* the same task, chain and address was processed
C6_KeyHasTask == \A p \in Checked : Cardinality(ProcessedLike(p)) = 1

\* two tasks saw the same address and both processed it
C6_Witness ==
    \E p, q \in Checked :
        /\ pin[p].task # pin[q].task
        /\ pin[p].ca = pin[q].ca
        /\ pout[p].ret = "ok"
        /\ pout[q].ret = "ok"

\* C7: an invocation calls fetch_risk_scores at most once, and only when the
\* basic filters passed and a risk range is set; when the basic filters
\* failed it is not called and no reason names a risk score
C7_RiskFetchedLazily ==
    \A p \in Invocations :
        LET o == pout[p]
            cfg == FiltersCfg(st_tasks, pin[p].task)
        IN  /\ o.risk_calls <= 1
            /\ o.risk_calls = 1 =>
                    o.basic_passed = Some(TRUE) /\ NeedRiskCheck(cfg)
            /\ o.basic_passed = Some(FALSE) =>
                    /\ o.risk_calls = 0
                    /\ \A i \in 1..Len(o.reasons) :
                           o.reasons[i].field \notin RiskNames

\* one invocation fetched the scores and another, for a task with a risk
\* range, failed the basic filters
C7_Witness ==
    \E p, q \in Invocations :
        /\ ppc[p] = "done" /\ pout[p].risk_calls = 1
        /\ ppc[q] = "done" /\ pout[q].basic_passed = Some(FALSE)
        /\ NeedRiskCheck(FiltersCfg(st_tasks, pin[q].task))
        /\ Len(pout[q].reasons) > 0

(***************************************************************************)
(* The scheduler loop, pause and resume.                                   *)
(***************************************************************************)
\* the task has a start_time or an end_time
Windowed(task) ==
    task.start_time.kind \in {"hm", "bad"} \/ task.end_time.kind \in {"hm", "bad"}

\* C18: in one iteration of the scheduler loop the enabled flag of a task
\* changes only in two ways: an enabled task with a window is disabled when
\* the time is outside the window, and a disabled task with a window is
\* enabled when the time is inside it.  The flag of a task with neither
\* start_time nor end_time is not changed by the iteration.
C18_AutoToggleOnlyByWindow ==
    [][RunLoop =>
        \A id \in SchedIds :
            LET old == sch_tasks[id]
                new == sch_tasks'[id]
            IN  /\ new.enabled # old.enabled =>
                     /\ Windowed(old)
                     /\ old.enabled = ~TaskInWindow(old, clock)
                /\ ~Windowed(old) => new.enabled = old.enabled]_vars

\* the loop has opened s1, whose window is open, and has left s2, which has
\* no window and is disabled, as it was
C18_Witness ==
    /\ sch_ops = 0
    /\ Len(sch_sync) > 0
    /\ sch_sync[Len(sch_sync)] = [id |-> "s1", enabled |-> TRUE]
    /\ sch_tasks["s1"].enabled
    /\ TaskInWindow(sch_tasks["s1"], clock)
    /\ ~sch_tasks["s2"].enabled

\* the instants from `from` to `to`, one in every minute
MinuteSamples(from, to) ==
    {from + j * SecondsPerMinute : j \in 0..((to - from) \div SecondsPerMinute)}
        \cup {to}

\* no boundary of the task's window lies between `from` and `to`
NoBoundaryBetween(task, from, to) ==
    \A c \in MinuteSamples(from, to) :
        TaskInWindow(task, c) = TaskInWindow(task, from)

\* C19: after the operator has paused a task with a window while the time
\* is inside the window, the task stays disabled until the next boundary of
\* the window; after the operator has resumed it while the time is outside
\* the window, it stays enabled until the next boundary.
C19_ExplicitChoiceHeld ==
    \A id \in SchedIds :
        LET h == sch_hold[id]
            task == sch_tasks[id]
        IN  (/\ h.kind # "none"
             /\ Windowed(task)
             /\ TaskInWindow(task, h.at) = (h.kind = "paused")
             /\ NoBoundaryBetween(task, h.at, clock))
            => task.enabled = (h.kind = "resumed")

\* C20: when the loop fires a due task at the time t0 it sets the task's
\* next_run to t0 + interval_minutes * 60 in the same step, before the
\* execution starts, and no step of an execution changes next_run.
C20_NextRunSetAtFire ==
    [][LET fired == {id \in SchedIds : CopiesIn(NewRun(id), sch_runs')
                                          > CopiesIn(NewRun(id), sch_runs)}
       IN  /\ \A id \in fired :
                sch_tasks'[id].next_run
                  = clock + SchedInterval[id] * SecondsPerMinute
           /\ (sch_runs' # sch_runs /\ fired = {}) =>
                \A id \in SchedIds :
                    sch_tasks'[id].next_run = sch_tasks[id].next_run]_vars

\* an execution is inside process_ca and the next run of its task is one
\* interval after the present time
C20_Witness ==
    \E id \in SchedIds :
        /\ BagIn([NewRun(id) EXCEPT !.pc = "pca"], sch_runs)
        /\ sch_tasks[id].next_run = clock + SchedInterval[id] * SecondsPerMinute

\* the executions of the task that are in flight
InFlight(id) ==
    LET of_task == {r \in BagToSet(sch_runs) : r.id = id}
    IN  BagCardinality([r \in of_task |-> sch_runs[r]])

\* C21: for every task at most one execution spawned by the scheduler is
\* in flight at any time, even when an execution takes longer than the
\* interval of the task.
C21_OneExecutionPerTask ==
    \A id \in SchedIds : InFlight(id) <= 1

\* C22: an iteration of the loop that finds an enabled task outside its
\* window disables it and sets its next_run to the next opening of the
\* window, today at start_time if that is still ahead and tomorrow at
\* start_time otherwise; an iteration that finds a disabled task inside its
\* window enables it and sets its next_run to the present time, from which
\* the firing of the same iteration may advance it by one interval.
C22_ToggleSetsNextRun ==
    [][RunLoop =>
        \A id \in SchedIds :
            LET old == sch_tasks[id]
                new == sch_tasks'[id]
                opens == NextWindowStart(old, clock)
            IN  /\ (Windowed(old) /\ old.enabled /\ ~TaskInWindow(old, clock)
                      /\ ~IsNone(opens))
                   => (~new.enabled /\ new.next_run = Val(opens))
                /\ (Windowed(old) /\ ~old.enabled /\ TaskInWindow(old, clock))
                   => (new.enabled
                         /\ new.next_run \in
                              {clock, clock + SchedInterval[id] * SecondsPerMinute})]_vars

\* C23: an exception raised by the pipeline during the execution of a task
\* is caught inside _run_task: the step that handles it leaves the loop
\* alive, so that it goes on iterating and dispatching the other tasks,
\* and leaves the enabled flag and next_run of every task, the failing
\* one included, and the saved configuration as they were.
C23_FailureIsContained ==
    [][(\E r \in RunStates : RunPca(r, "raised")) =>
          /\ sch_loop'.alive
          /\ sch_tasks' = sch_tasks
          /\ sch_saved' = sch_saved]_vars

\* an error of an execution of s1 or s2 was logged, the loop is alive, and
\* an execution it spawned is waiting to start
C23_Witness ==
    /\ sch_loop.logged
    /\ sch_loop.alive
    /\ \E id \in SchedIds : BagIn(NewRun(id), sch_runs)

\* C24: every step of the scheduler that changes the enabled flag or the
\* next_run of a task leaves the saved configuration of that task equal to
\* its values in memory.
C24_ChangesArePersisted ==
    [][\A id \in DOMAIN sch_tasks \cap DOMAIN sch_tasks' :
          sch_tasks'[id] # sch_tasks[id] =>
              /\ id \in DOMAIN sch_saved'
              /\ sch_saved'[id].enabled = sch_tasks'[id].enabled
              /\ sch_saved'[id].next_run = Some(sch_tasks'[id].next_run)]_vars

(***************************************************************************)
(* The commands of the operator, checked under SpecAdmin.                  *)
(***************************************************************************)
\* C25: add_task with an id that is present returns false and changes
\* neither the task list nor the saved configuration, and with a new id it
\* returns true and the task is in the list; pause and resume with an id
\* that is not present return false and change nothing, and with an id
\* that is present they return true and the task is disabled or enabled.
C25_CommandsReportSuccess ==
    [][\A id \in SchedIds :
          /\ AddTask(id) =>
                IF id \in DOMAIN sch_tasks
                THEN /\ sch_ret' = Ret("add_task", FALSE)
                     /\ sch_tasks' = sch_tasks
                     /\ sch_saved' = sch_saved
                ELSE /\ sch_ret' = Ret("add_task", TRUE)
                     /\ DOMAIN sch_tasks' = DOMAIN sch_tasks \cup {id}
                     /\ \A t \in DOMAIN sch_tasks : sch_tasks'[t] = sch_tasks[t]
          /\ (Pause(id) \/ Resume(id)) =>
                IF id \in DOMAIN sch_tasks
                THEN /\ sch_ret'[1].ok
                     /\ sch_tasks'[id].enabled = (sch_ret'[1].op = "resume")
                ELSE /\ ~sch_ret'[1].ok
                     /\ sch_tasks' = sch_tasks
                     /\ sch_saved' = sch_saved]_vars

\* add_task was refused for s2, which the scheduler holds
C25_Witness ==
    /\ sch_ret = Ret("add_task", FALSE)
    /\ "s2" \in DOMAIN sch_tasks

\* the task was deleted from the state file, which held it at the start
Deleted(id) == id \in StateSchedIds /\ id \notin DOMAIN st_enabled

\* C27: after the operator has deleted a task it is absent from the task
\* list of the scheduler and from the saved configuration, and no
\* execution of it waits to start.
C27_DeletedTaskIsGone ==
    \A id \in SchedIds :
        Deleted(id) =>
            /\ id \notin DOMAIN sch_tasks
            /\ id \notin DOMAIN sch_saved
            /\ ~BagIn(NewRun(id), sch_runs)

(***************************************************************************)
(* load_tasks, checked under SpecLoad.                                     *)
(***************************************************************************)
\* the entry has an id, a client and a ca of its own
HasMandatory(entry) ==
    ~IsNone(entry.id) /\ ~IsNone(entry.client) /\ ~IsNone(entry.ca)

\* C26: load_tasks does not fail on a list with entries that lack an id, a
\* client or a ca; it loads exactly the entries that have all three, so
\* every such entry of the list is loaded and no loaded task comes from an
\* entry without an explicit id, client or ca.
C26_LoadSkipsInvalid ==
    (ld.done /\ \A i \in 1..Len(ld.cfg) : ld.cfg[i].interval # "bad") =>
        /\ ~ld.out.failed
        /\ {ld.out.tasks[j].entry : j \in 1..Len(ld.out.tasks)}
             = {i \in 1..Len(ld.cfg) : HasMandatory(ld.cfg[i])}

(***************************************************************************)
(* The reload from the state document, checked under SpecReload.           *)
(***************************************************************************)
\* C28: the reload overwrites in memory only what the entry of a task in
\* the state document holds: a start_time or end_time key that is present
\* replaces the value in memory, one that is absent leaves it as it was,
\* and a task that the document does not hold is not modified.
C28_ReloadKeepsAbsentFields ==
    [][SyncTasksFromState =>
        \A id \in DOMAIN sch_tasks :
            IF id \notin DOMAIN st_doc THEN sch_tasks'[id] = sch_tasks[id]
            ELSE /\ sch_tasks'[id].start_time =
                      IF IsNone(st_doc[id].start_time) THEN sch_tasks[id].start_time
                      ELSE Val(st_doc[id].start_time)
                 /\ sch_tasks'[id].end_time =
                      IF IsNone(st_doc[id].end_time) THEN sch_tasks[id].end_time
                      ELSE Val(st_doc[id].end_time)]_vars


\* the invocation p returned before any notification: the fetch failed, the
\* chart could not be rendered, or the filters rejected the token
StoppedEarly(p) ==
    /\ ppc[p] = "done"
    /\ \/ pout[p].ret \in FetchErrors
       \/ pout[p].ret = "render_error"
       \/ pout[p].ret = "ok" /\ ~pout[p].passed

\* the checked invocations p and q are for the same task, chain and address
SameKey(p, q) ==
    /\ pin[p].task = pin[q].task
    /\ pin[p].chain = pin[q].chain
    /\ pin[p].ca = pin[q].ca

\* C29: an automatic invocation that stops before the notification (fetch
\* failure, chart failure, filter rejection) leaves its dedupe key
\* unrecorded, and a later invocation for the same task, chain and address
\* is not skipped
C29_KeyCommittedLast ==
    \A p \in Checked :
        StoppedEarly(p) =>
            /\ (\A q \in Checked \ {p} : ~SameKey(p, q)) =>
                   KeyOf(pin[p].task, pin[p].chain, pin[p].ca)
                       \notin DOMAIN memory
            /\ \A q \in Checked :
                   p < q /\ SameKey(p, q) => pout[q].ret # "skipped"


\* every occurrence of the step a in the sequence comes before every
\* occurrence of the step b
Precedes(steps, a, b) ==
    \A i, j \in 1..Len(steps) : steps[i] = a /\ steps[j] = b => i < j

\* C30: within one invocation the dedupe check comes before any fetch, the
\* basic filters before the fetch of the risk scores, that fetch before the
\* risk filters, and the rendering of the chart before any notification
C30_StepsInOrder ==
    \A p \in Invocations :
        LET steps == pout[p].steps
        IN  /\ Precedes(steps, "dedupe", "fetch")
            /\ Precedes(steps, "dedupe", "risk_fetch")
            /\ Precedes(steps, "basic_filter", "risk_fetch")
            /\ Precedes(steps, "risk_fetch", "risk_filter")
            /\ Precedes(steps, "render", "notify")

\* an automatic invocation went through every step and notified a target
C30_Witness ==
    \E p \in Invocations :
        /\ ppc[p] = "done"
        /\ Len(pout[p].sent) > 0
        /\ {pout[p].steps[i] : i \in 1..Len(pout[p].steps)} =
               {"dedupe", "fetch", "basic_filter", "risk_fetch",
                "risk_filter", "render", "notify"}


\* the executions that are sending what _run_task made of an error message
\* returned by the pipeline
SendingFailure ==
    {r \in BagToSet(sch_runs) : r.pc = "send" /\ r.text = "failure"}

\* C31: when the pipeline of a scheduled task returned an error, what the
\* scheduler sends to each target of the task is the failure message
C31_FailureIsSentToTargets ==
    \A r \in SendingFailure : r.msg = "failure"


\* C32: in both loops over targets a send that fails does not end the loop;
\* when a target is left, the next step is the send to the next target:
\* _send_to_targets goes on with the same text, and the automatic push of
\* process_ca stays in its loop
C32_FailedSendGoesOn ==
    [][/\ \A r \in RunStates :
            RunSend(r, FALSE) /\ r.k < Len(SchedTargets[r.id]) =>
                BagIn(SendTo(r, r.k + 1, r.text), sch_runs')
       /\ \A p \in Invocations :
            PcaPush(p, FALSE)
              /\ pout[p].idx < Len(Targets(st_tasks, pin[p].task)) =>
                /\ ppc'[p] = "push"
                /\ pout'[p].idx = pout[p].idx + 1]_vars

\* an execution of the scheduler is at the last of its two targets, and an
\* invocation of process_ca made a send for each of its two targets of which
\* one only was delivered
C32_Witness ==
    /\ \E r \in BagToSet(sch_runs) : r.pc = "send" /\ r.k = 2
    /\ \E p \in Invocations :
         /\ ppc[p] = "done"
         /\ Len(Targets(st_tasks, pin[p].task)) = 2
         /\ Len(SelectSeq(pout[p].steps, LAMBDA x : x = "notify")) = 2
         /\ Len(pout[p].sent) = 1


\* the invocations whose chart could not be rendered
RenderFailed == {p \in Invocations : pout[p].ret = "render_error"}

\* C33: an invocation whose chart rendering failed has sent nothing to any
\* push target, and returns an error message without photo and caption
C33_RenderFailureSendsNothing ==
    \A p \in RenderFailed :
        /\ pout[p].sent = <<>>
        /\ \A i \in 1..Len(pout[p].steps) : pout[p].steps[i] # "notify"
        /\ Result(pout[p].ret).error # None
        /\ ~Result(pout[p].ret).photo
        /\ ~Result(pout[p].ret).caption

\* the rendering failed in an automatic invocation for a token that passed
\* the filters of a task with push targets
C33_Witness ==
    \E p \in RenderFailed :
        /\ ~pin[p].force_push
        /\ pout[p].passed
        /\ Len(Targets(st_tasks, pin[p].task)) > 0


\* a call of set_filter with a name that is none of the nine filters
SetUnknownFilter ==
    \E name \in StoreNames \ FilterNames, min_val \in StoreBounds,
       max_val \in StoreBounds, task_id \in StoreTaskArgs :
        SetFilter(name, min_val, max_val, task_id)

\* C34: set_filter with a name outside the nine filter names raises an
\* error and leaves the store as it was: the same tasks with the same
\* filters in memory, and the same persisted document
C34_UnknownFilterChangesNothing ==
    [][SetUnknownFilter =>
          /\ st_ret' = "ValueError"
          /\ st_tasks' = st_tasks
          /\ st_file' = st_file]_vars


InvokesPca(r) ==
    /\ RunStart(r, TRUE)
    /\ CopiesIn([r EXCEPT !.pc = "pca"], sch_runs') =
           CopiesIn([r EXCEPT !.pc = "pca"], sch_runs) + 1

\* C36: at the moment the scheduler calls process_ca for a task, the task
\* is enabled and the present time is inside its window
C36_InvokedOnlyWhenEnabledInWindow ==
    [][\A r \in RunStates :
          InvokesPca(r) =>
              /\ sch_tasks[r.id].enabled
              /\ TaskInWindow(sch_tasks[r.id], clock)]_vars


\* the entry of the task in the state document says what the scheduler
\* holds: the same window and the same enabled flag
DocAgrees(id) ==
    /\ id \in DOMAIN st_enabled
    /\ st_enabled[id] = sch_tasks[id].enabled
    /\ DocGet(st_doc[id].start_time) = sch_tasks[id].start_time
    /\ DocGet(st_doc[id].end_time) = sch_tasks[id].end_time

\* C37: two dispatches of a task are one interval apart at least: a reload
\* of a state document whose entry for the task holds nothing new leaves
\* the next_run of a task that was dispatched and is not yet due again
\* where it is
C37_ReloadKeepsNextRun ==
    [][\A id \in DOMAIN sch_tasks :
          /\ SyncTasksFromState
          /\ DocAgrees(id)
          /\ sch_tasks[id].next_run > clock
          => sch_tasks'[id].next_run = sch_tasks[id].next_run]_vars


\* the step in which the invocation p starts with force_push set
StartsForced(p) == ppc[p] = "idle" /\ ppc'[p] # "idle" /\ pin'[p].force_push

\* C38: a forced invocation neither reads nor writes the dedupe store: its
\* start leaves the store as it is and goes on to the fetch, it is never
\* skipped, and an automatic invocation is skipped only when another
\* automatic invocation for the same task, chain and address was not
\* skipped
C38_ForcedIgnoresDedupe ==
    [][/\ \A p \in Invocations :
            StartsForced(p) =>
                /\ memory' = memory
                /\ last_cleanup' = last_cleanup
                /\ ppc'[p] = "fetch"
       /\ \A q \in Invocations :
            pout'[q].ret = "skipped" =>
                /\ ~pin'[q].force_push
                /\ \E p \in Invocations \ {q} :
                      /\ ppc'[p] # "idle"
                      /\ ~pin'[p].force_push
                      /\ pin'[p].task = pin'[q].task
                      /\ pin'[p].chain = pin'[q].chain
                      /\ pin'[p].ca = pin'[q].ca
                      /\ pout'[p].ret # "skipped"]_vars

\* an automatic invocation recorded the key, and a forced invocation for
\* the same task, chain and address, made after it, went on to the fetch
C38_Witness ==
    \E p, q \in Invocations :
        /\ p < q
        /\ ~pin[p].force_push /\ pin[q].force_push
        /\ ppc[q] # "idle"
        /\ pin[p].task = pin[q].task
        /\ pin[p].chain = pin[q].chain
        /\ pin[p].ca = pin[q].ca
        /\ KeyOf(pin[q].task, pin[q].chain, pin[q].ca) \in DOMAIN memory
        /\ pout[q].ret \notin {"none", "skipped"}


\* the invocation made a send to a push target, delivered or not
Notified(p) ==
    \/ Len(pout[p].sent) > 0
    \/ \E i \in 1..Len(pout[p].steps) : pout[p].steps[i] = "notify"

\* C39: an automatic invocation sends to push targets only after the fetch
\* succeeded, every filter passed and the chart was rendered; an invocation
\* that was skipped, whose fetch or rendering failed, or whose token the
\* filters rejected has sent nothing
C39_AutoPushOnlyWhenPassed ==
    \A p \in Invocations :
        ~pin[p].force_push =>
            /\ Notified(p) =>
                  /\ pout[p].basic_passed = Some(TRUE)
                  /\ pout[p].passed
                  /\ pout[p].reasons = <<>>
                  /\ \E i \in 1..Len(pout[p].steps) : pout[p].steps[i] = "render"
                  /\ pout[p].ret \in {"none", "ok"}
            /\ \/ pout[p].ret \in FetchErrors \cup {"skipped", "render_error"}
               \/ ppc[p] = "done" /\ ~pout[p].passed
               => ~Notified(p)

\* one automatic invocation has sent to a push target, and another, for a
\* task with push targets, ended with a token the filters rejected
C39_Witness ==
    \E p, q \in Invocations :
        /\ ~pin[p].force_push /\ ~pin[q].force_push
        /\ Len(pout[p].sent) > 0
        /\ ppc[q] = "done" /\ pout[q].ret = "ok" /\ ~pout[q].passed
        /\ Len(pout[q].reasons) > 0
        /\ Len(Targets(st_tasks, pin[q].task)) > 0


\* the scheduler has opened or closed the task as its window says, and the
\* synchronisation of the new flag to the state store has not run yet
ToggleUnsynced(id) ==
    /\ id \in DOMAIN st_enabled
    /\ HasWindow(sch_tasks[id])
    /\ sch_tasks[id].enabled = TaskInWindow(sch_tasks[id], clock)
    /\ \E j \in 1..Len(sch_sync) :
          sch_sync[j] = [id |-> id, enabled |-> sch_tasks[id].enabled]

\* C40: after the scheduler has opened or closed a task that the state
\* store holds, the two flags settle on the new value without swinging
\* back: while the synchronisation is on its way and the clock has not
\* moved, no reload returns the flag in memory to the old value
C40_FlagsDoNotSwingBack ==
    [][\A id \in DOMAIN sch_tasks :
          SyncTasksFromState /\ ToggleUnsynced(id)
              => sch_tasks'[id].enabled = sch_tasks[id].enabled]_vars

=============================================================================
